---- MODULE Spec2Model ----
(***************************************************************************)
(* Elapsed-time reconciliation engine of the time tracker: the stopwatch   *)
(* (ActiveStopwatch), the page that owns the active task, the task store   *)
(* reached through supabase, the finalize endpoint and the history table's *)
(* read cache.                                                             *)
(*                                                                         *)
(* Two builds of the stopwatch exist in the sources and are both modelled, *)
(* selected by the variable `variant`:                                     *)
(*   "anchor" - src/unnamed/part_002 with src/app/page.tsx: local state is *)
(*              initialised at mount, the running start survives in a      *)
(*              localStorage slot;                                         *)
(*   "sync"   - src/unnamed/part_001 (lines 1452-1764 with the page of     *)
(*              lines 1-898): an effect copies the task prop into local    *)
(*              state whenever one of its fields changes.                  *)
(*                                                                         *)
(* A store write is applied when its handler issues it (writes reach the   *)
(* store in user-event order); its reply waits in a slot and is delivered  *)
(* in any order.  A history query carries the result the store gave when   *)
(* it was issued.                                                          *)
(*                                                                         *)
(* Spec (SpecAnchor, SpecSync for one build) is the page, the stopwatch,   *)
(* the store and the finalize endpoint; SpecHistory is the history table   *)
(* with the page callbacks that change refreshKey.                         *)
(***************************************************************************)
EXTENDS Integers, Sequences, FiniteSets, TLC

(* ------------------------------ bounds --------------------------------- *)
MaxNow == 2
MaxTasks == 2
MaxInFlight == 2
MaxOps == 4
MaxClientMs == 1
MaxReads == 2
MaxTableOps == 3
MaxEditMs == 1
RangeDay == 1
MaxUsers == 2
MaxQueries == 3
MaxRequests == 3

(* --------------------------- value domains ----------------------------- *)
NULL == -1
TaskIds == 1..MaxTasks
Slots == 1..MaxInFlight
NoRow == [id |-> 0]
NoAnchor == [taskId |-> 0]
NoResponse == [kind |-> "none"]
NoTask == [id |-> 0]
Variants == {"anchor", "sync"}
TerminalStatuses == {"finished", "canceled"}
ActiveStatuses == {"running", "paused"}
ReadSlots == 1..MaxReads
NoRead == [key |-> <<>>]
NoKey == <<>>
NoRange == [from |-> NULL, to |-> NULL]
Ranges == {NoRange, [from |-> RangeDay, to |-> RangeDay]}
EditTimes == 0..MaxEditMs
\* user ids; 0 stands for no user, no project, an empty list, a null ref
UserIds == 1..MaxUsers
NoUser == 0
NoCache == [userId |-> 0]

VARIABLES
  variant,            \* which build of the stopwatch/page is running
  now,                \* Date.now() of the client
  store,              \* tasks table: id -> row or NoRow
  responses,          \* slot -> settled-but-undelivered reply of a persist() call
  activeTask,         \* Page state activeTask (row snapshot) or NoTask
  storedActiveTask,   \* localStorage ACTIVE_TASK_KEY: task id or NULL
  anchor,             \* localStorage ACTIVE_TASK_RUNNING_START_KEY
  refreshKey,         \* Page state refreshKey
  status,             \* ActiveStopwatch state; "none" while unmounted
  accumulatedMs,
  totalMs,
  pauseCount,
  pausedMs,
  runningStartRef,
  pausedAtRef,
  dateRange,          \* HistoryTable state dateRange (a range of days or NoRange)
  rows,               \* HistoryTable state rows (the displayed rows)
  total,              \* HistoryTable state total
  isLoading,          \* HistoryTable state isLoading
  tableUnavailable,   \* HistoryTable state tableUnavailable
  cacheRef,           \* HistoryTable cacheRef: entries [key, rows, total]
  inFlightRef,        \* HistoryTable inFlightRef: set of keys
  activeRequestRef,   \* HistoryTable activeRequestRef: a key or NoKey
  reads,              \* slot -> history query on its way, with the result it carries
  modalReply,         \* reply of the edit or delete call of the open modal
  user,               \* Page state user: the id of the signed-in user or NoUser
  activeProjectId,    \* Page state activeProjectId (user u owns the one project u)
  projects,           \* Page state projects: the user whose list is shown, or NoUser
  profileUsername,    \* Page state profileUsername: the user whose name is shown
  projectsUnavailableRef,
  projectsCacheRef,   \* [userId, projects] or NoCache
  projectsInFlightRef,
  profileCacheRef,    \* [userId, username] or NoCache
  profileInFlightRef,
  activeTaskInFlightRef, \* a request key or NoKey
  activeTaskRequestRef,  \* the number of the last fetchActiveTask call
  queries,            \* the page's queries on their way (projects, profile, lookup)
  lastServed,         \* bookkeeping: what the caches served in the step just taken
  viewTask,           \* HistoryTable state viewTask: the row of the view modal or NoRow
  viewFigures,        \* what the view modal rendered last: durations, or NoFigures
  projectTaskCounts,  \* Page state projectTaskCounts of the user's project, or NoCount
  manageProjectsLoading, \* Page state manageProjectsLoading
  countQuery,         \* the count query of loadProjectTaskCounts: on its way or the last settled
  projectReply,       \* reply of deleteProject's call on its way
  ops,                \* bookkeeping: number of outside events so far
  slices,             \* bookkeeping: per task, the wall-clock running slices so far
  lastOp,             \* bookkeeping: the step just taken
  lastLoad,           \* bookkeeping: what load() did in the step just taken
  shownKey,           \* bookkeeping: the key whose result load() applied last
  readFailed          \* bookkeeping: a history query has failed

timerVars == <<status, accumulatedMs, totalMs, pauseCount, pausedMs,
               runningStartRef, pausedAtRef>>
pageVars == <<activeTask, storedActiveTask, refreshKey>>
tableVars == <<rows, total, isLoading, tableUnavailable, cacheRef, inFlightRef,
               activeRequestRef, reads, shownKey>>
histVars == <<dateRange, rows, total, isLoading, tableUnavailable, cacheRef,
              inFlightRef, activeRequestRef, reads, modalReply, lastLoad, shownKey,
              readFailed>>
sessVars == <<user, activeProjectId, projects, profileUsername, projectsUnavailableRef,
              projectsCacheRef, projectsInFlightRef, profileCacheRef, profileInFlightRef,
              activeTaskInFlightRef, activeTaskRequestRef, queries, lastServed>>
viewVars == <<viewTask, viewFigures>>
projVars == <<projectTaskCounts, manageProjectsLoading, countQuery, projectReply>>
vars == <<variant, now, store, responses, activeTask, storedActiveTask, anchor,
          refreshKey, status, accumulatedMs, totalMs, pauseCount, pausedMs,
          runningStartRef, pausedAtRef, dateRange, rows, total, isLoading,
          tableUnavailable, cacheRef, inFlightRef, activeRequestRef, reads,
          modalReply, ops, slices, lastOp, lastLoad, shownKey, readFailed,
          user, activeProjectId, projects, profileUsername, projectsUnavailableRef,
          projectsCacheRef, projectsInFlightRef, profileCacheRef, profileInFlightRef,
          activeTaskInFlightRef, activeTaskRequestRef, queries, lastServed,
          viewTask, viewFigures, projectTaskCounts, manageProjectsLoading, countQuery,
          projectReply>>

(* ------------------------------ helpers -------------------------------- *)
IsTerminal(row) == row.status \in TerminalStatuses

Mounted == activeTask # NoTask

Pending == Cardinality({s \in Slots : responses[s] # NoResponse})

FreeSlot == CHOOSE s \in Slots : responses[s] = NoResponse /\
                                 \A q \in Slots : responses[q] = NoResponse => s <= q

\* value ?? fallback
Coalesce(value, fallback) == IF value = NULL THEN fallback ELSE value

\* a timestamp column that does not parse as a date
Invalid == -2

\* parseIsoMs: null for a missing or unparseable timestamp, else its epoch ms
parseIsoMs(value) == IF value = NULL \/ value = Invalid THEN NULL ELSE value

\* at most MaxOps events arrive from outside (user clicks, finalize calls)
Budget == ops < MaxOps

(* ------------------------------- store --------------------------------- *)
\* supabase .update(patch): the patch's columns replace the row's; the trigger
\* set_tasks_updated_at stamps updated_at = now().  updated_at is the
\* millisecond a Date parses out of the timestamp, updated_at_sub stands for
\* its sub-millisecond digits: no two writes of a row leave the same timestamp
ApplyPatch(row, patch) ==
  [f \in DOMAIN row |->
     IF f = "updated_at" THEN now
     ELSE IF f = "updated_at_sub" THEN row.updated_at_sub + 1
     ELSE IF f \in DOMAIN patch THEN patch[f] ELSE row[f]]

\* persist(): .update(patch).eq("id", task.id) - no predicate on status
PersistTargets(row) == row # NoRow

\* the store after persist(patch) on task id; a failed call changes nothing
PersistedStore(id, patch, ok) ==
  IF ok /\ PersistTargets(store[id])
  THEN [store EXCEPT ![id] = ApplyPatch(@, patch)]
  ELSE store

\* a finalize without the status filter
FinalizeTargetsAnyStatus(row) == row # NoRow

\* POST finalize: .eq("id", taskId).in("status", ["running", "paused"])
FinalizeTargets(row) == row # NoRow /\ row.status \in ActiveStatuses

Max(a, b) == IF a >= b THEN a ELSE b

FinalizePatch(clientAccumulatedMs) ==
  [status |-> "finished", ended_at |-> now,
   duration_ms |-> Max(0, clientAccumulatedMs),
   accumulated_ms |-> Max(0, clientAccumulatedMs)]

\* TaskComposer.createTask: the inserted row (columns the insert omits take 0/null)
NewTaskRow(id) ==
  [id |-> id, status |-> "running", started_at |-> now, ended_at |-> NULL,
   accumulated_ms |-> 0, duration_ms |-> 0, pause_count |-> 0, paused_ms |-> 0,
   paused_at |-> NULL, updated_at |-> now, updated_at_sub |-> 0]

(* --------------------------- anchor store ------------------------------ *)
\* a read of the slot that does not compare the task id
readStoredAnyTask(slot, taskId) ==
  IF slot = NoAnchor THEN NULL ELSE slot.runningStartMs

\* readStoredRunningStartMs: null for an empty slot, for a slot that does not
\* parse or names another task (taskId 0 stands for neither), and for a
\* runningStartMs that is not a number (NULL)
readStoredRunningStartMs(slot, taskId) ==
  IF slot = NoAnchor THEN NULL
  ELSE IF slot.taskId # taskId THEN NULL
  ELSE slot.runningStartMs

writeStoredRunningStartMs(taskId, startMs) ==
  [taskId |-> taskId, runningStartMs |-> startMs]

\* fallback of the anchor effect: updated_at, then started_at, then now
FallbackStartMs(task) ==
  Coalesce(parseIsoMs(task.updated_at), Coalesce(parseIsoMs(task.started_at), now))

\* getRunningStartMs of the sync build
getRunningStartMs(task) ==
  Coalesce(parseIsoMs(task.updated_at), Coalesce(parseIsoMs(task.started_at), now))

\* getPausedAtMs / the pausedAt effect's chain
getPausedAtMs(task) ==
  Coalesce(parseIsoMs(task.paused_at),
    Coalesce(parseIsoMs(task.updated_at), Coalesce(parseIsoMs(task.started_at), now)))

\* anchor effect (deps: status, task.id, task.updated_at, task.started_at):
\* the running start it leaves in runningStartRef
AnchorEffectStart(st, task, slot, ref) ==
  IF st # "running" THEN ref
  ELSE IF readStoredRunningStartMs(slot, task.id) # NULL
       THEN readStoredRunningStartMs(slot, task.id)
       ELSE FallbackStartMs(task)

\* ... and the slot it leaves in localStorage
AnchorEffectSlot(st, task, slot, ref) ==
  IF st # "running" THEN NoAnchor
  ELSE writeStoredRunningStartMs(task.id, AnchorEffectStart(st, task, slot, ref))

\* pausedAt effect (deps: status, task.paused_at, task.updated_at, task.started_at)
PausedAtEffect(st, task, ref) ==
  IF st # "paused" THEN NULL
  ELSE IF ref # NULL THEN ref
  ELSE getPausedAtMs(task)

(* ------------------- stopwatch: mount and prop change ------------------ *)
Timer == [status |-> status, accumulatedMs |-> accumulatedMs, totalMs |-> totalMs,
          pauseCount |-> pauseCount, pausedMs |-> pausedMs,
          runningStartRef |-> runningStartRef, pausedAtRef |-> pausedAtRef]

Unmounted == [status |-> "none", accumulatedMs |-> 0, totalMs |-> 0,
              pauseCount |-> 0, pausedMs |-> 0,
              runningStartRef |-> NULL, pausedAtRef |-> NULL]

SetTimer(t) ==
  /\ status' = t.status
  /\ accumulatedMs' = t.accumulatedMs
  /\ totalMs' = t.totalMs
  /\ pauseCount' = t.pauseCount
  /\ pausedMs' = t.pausedMs
  /\ runningStartRef' = t.runningStartRef
  /\ pausedAtRef' = t.pausedAtRef

\* anchor build, first render of a stopwatch for `task`: useState initialisers,
\* then the anchor effect and the pausedAt effect
MountAnchor(task, slot) ==
  [status |-> task.status,
   accumulatedMs |-> task.accumulated_ms,
   totalMs |-> task.accumulated_ms,
   pauseCount |-> Coalesce(task.pause_count, 0),
   pausedMs |-> Coalesce(task.paused_ms, 0),
   runningStartRef |-> AnchorEffectStart(task.status, task, slot, now),
   pausedAtRef |-> PausedAtEffect(task.status, task, NULL)]

\* an effect that merges: the optimistic accumulated time and pause count win
SyncEffectMerging(task, t) ==
  [status |-> task.status,
   accumulatedMs |-> t.accumulatedMs,
   totalMs |-> t.totalMs,
   pauseCount |-> t.pauseCount,
   pausedMs |-> Coalesce(task.paused_ms, 0),
   runningStartRef |-> IF task.status = "running" THEN getRunningStartMs(task)
                       ELSE t.runningStartRef,
   pausedAtRef |-> IF task.status = "paused" THEN getPausedAtMs(task) ELSE NULL]

\* sync build: the effect that copies the task prop into local state
SyncEffect(task, t) ==
  [status |-> task.status,
   accumulatedMs |-> task.accumulated_ms,
   totalMs |-> IF task.status = "running"
               THEN task.accumulated_ms + (now - getRunningStartMs(task))
               ELSE task.accumulated_ms,
   pauseCount |-> Coalesce(task.pause_count, 0),
   pausedMs |-> Coalesce(task.paused_ms, 0),
   runningStartRef |-> IF task.status = "running" THEN getRunningStartMs(task)
                       ELSE t.runningStartRef,
   pausedAtRef |-> IF task.status = "paused" THEN getPausedAtMs(task) ELSE NULL]

\* sync build, first render: runningStartRef starts at nowMs()
MountSync(task) == SyncEffect(task, [Unmounted EXCEPT !.runningStartRef = now])

\* dependency lists of the effects
\* the updated_at string a dependency list compares
UpdatedAt(task) == <<task.updated_at, task.updated_at_sub>>

AnchorDeps(task) == <<task.id, UpdatedAt(task), task.started_at>>
PausedAtDeps(task) == <<task.paused_at, UpdatedAt(task), task.started_at>>
SyncDeps(task) == <<task.id, task.status, task.accumulated_ms, task.pause_count,
                    task.paused_ms, task.paused_at, UpdatedAt(task), task.started_at>>

\* the stopwatch after the page replaced activeTask `old` by `task`
\* (key = task.id: another id is a fresh mount)
TimerAfterProp(old, task, slot, t) ==
  IF task = NoTask THEN Unmounted
  ELSE IF old = NoTask \/ old.id # task.id
       THEN IF variant = "anchor" THEN MountAnchor(task, slot) ELSE MountSync(task)
  ELSE IF variant = "anchor"
       THEN [t EXCEPT
               !.runningStartRef =
                  IF AnchorDeps(task) # AnchorDeps(old)
                  THEN AnchorEffectStart(t.status, task, slot, @) ELSE @,
               !.pausedAtRef =
                  IF PausedAtDeps(task) # PausedAtDeps(old)
                  THEN PausedAtEffect(t.status, task, @) ELSE @]
  ELSE IF SyncDeps(task) # SyncDeps(old) THEN SyncEffect(task, t) ELSE t

\* ... and the anchor slot the same render leaves behind
SlotAfterProp(old, task, slot, t) ==
  IF variant # "anchor" \/ task = NoTask THEN slot
  ELSE IF old = NoTask \/ old.id # task.id
       THEN AnchorEffectSlot(task.status, task, slot, now)
  ELSE IF AnchorDeps(task) # AnchorDeps(old)
       THEN AnchorEffectSlot(t.status, task, slot, t.runningStartRef)
  ELSE slot

(* ------------------- history table: keys and query --------------------- *)
\* HistoryTable: const PAGE_SIZE = 10
PAGE_SIZE == 10

\* HistoryTable state page (useState(0)): with at most MaxTasks < PAGE_SIZE
\* rows the pagination control offers no other page
page == 0

\* rangeKey: "all" without a range, else the two formatted days joined
rangeKey(range) == IF range = NoRange THEN <<>> ELSE <<range.from, range.to>>

\* getCacheKey (userId and projectId are those of the one signed-in user and
\* selected project)
getCacheKey(rk, range) == <<page, rk, rangeKey(range)>>

CurrentKey == getCacheKey(refreshKey, dateRange)

\* the query of load(): the project's tasks whose started_at lies in the range;
\* the page's slice of them and their exact count
InRange(row, range) ==
  range = NoRange \/ (row.started_at >= range.from /\ row.started_at <= range.to)

QueryIds(st, range) == {t \in TaskIds : st[t] # NoRow /\ InRange(st[t], range)}

QueryRows(st, range) ==
  IF Cardinality(QueryIds(st, range)) <= PAGE_SIZE
  THEN {st[t] : t \in QueryIds(st, range)}
  ELSE {}

QueryCount(st, range) == Cardinality(QueryIds(st, range))

Cached(key) == {e \in cacheRef : e.key = key}

CacheSet(cache, key, newRows, newTotal) ==
  {e \in cache : e.key # key} \cup {[key |-> key, rows |-> newRows, total |-> newTotal]}

FreeRead == CHOOSE s \in ReadSlots : reads[s] = NoRead /\ \A u \in ReadSlots : u < s => reads[u] # NoRead

ReadsOf(key) == {s \in ReadSlots : reads[s] # NoRead /\ reads[s].key = key}

(* ---------------------------- bookkeeping ------------------------------ *)
\* the step just taken: the handler, its task, whether its store call succeeded,
\* whether the task's row was terminal before it, whether it changed the row, and
\* whether the task had not been finished or canceled by the user before it;
\* toast: the step raised toast.error
Op(name, id, ok) ==
  [op |-> name, id |-> id, ok |-> ok, toast |-> FALSE,
   wasTerminal |-> id \in TaskIds /\ store[id] # NoRow /\ IsTerminal(store[id]),
   rowChanged |-> id \in TaskIds /\ store'[id] # store[id],
   first |-> id \in TaskIds /\ ~slices[id].done]

NoSlices == [made |-> FALSE, sum |-> 0, start |-> NULL, done |-> FALSE]

\* wall-clock bookkeeping of the running slices of a task, kept apart from the
\* stopwatch's own arithmetic: a slice opens at creation and at resume, closes at
\* pause and at the first finish or cancel
SliceOpen(id) == [slices EXCEPT ![id] = IF @.done THEN @ ELSE [@ EXCEPT !.start = now]]
SliceClose(id) ==
  [slices EXCEPT ![id] =
     IF @.done \/ @.start = NULL THEN @
     ELSE [@ EXCEPT !.sum = @ + (now - slices[id].start), !.start = NULL]]
SliceEnd(id) == [SliceClose(id) EXCEPT ![id].done = TRUE]

(* ------------------------------ session -------------------------------- *)
NothingServed == [projects |-> NoUser, profile |-> NoUser]

\* user 1 is signed in, the projects and the profile have been loaded and
\* project 1 is selected
SignedIn ==
  /\ user = 1 /\ activeProjectId = 1 /\ projects = 1 /\ profileUsername = 1
  /\ projectsUnavailableRef = FALSE
  /\ projectsCacheRef = [userId |-> 1, projects |-> 1]
  /\ projectsInFlightRef = NoUser
  /\ profileCacheRef = [userId |-> 1, username |-> 1]
  /\ profileInFlightRef = NoUser
  /\ activeTaskInFlightRef = NoKey
  /\ activeTaskRequestRef = 0
  /\ queries = <<>>
  /\ lastServed = NothingServed

\* no row is open in the view modal
NoFigures == [durationMs |-> NULL, pausedMs |-> NULL]
ViewClosed == viewTask = NoRow /\ viewFigures = NoFigures

\* the Manage Projects modal has not been opened
NoCount == NULL
NoQuery == [state |-> "none"]
ManageClosed ==
  /\ projectTaskCounts = NoCount /\ manageProjectsLoading = FALSE
  /\ countQuery = NoQuery /\ projectReply = NoResponse

(* ------------------------------ actions -------------------------------- *)
\* the page and the table as they mount
InitPage ==
  /\ variant \in Variants
  /\ now = 0
  /\ store = [t \in TaskIds |-> NoRow]
  /\ responses = [s \in Slots |-> NoResponse]
  /\ activeTask = NoTask
  /\ storedActiveTask = NULL
  /\ anchor = NoAnchor
  /\ refreshKey = 0
  /\ status = "none" /\ accumulatedMs = 0 /\ totalMs = 0 /\ pauseCount = 0
  /\ pausedMs = 0 /\ runningStartRef = NULL /\ pausedAtRef = NULL
  /\ ops = 0
  /\ slices = [t \in TaskIds |-> NoSlices]
  /\ lastOp = [op |-> "init", id |-> 0, ok |-> TRUE, toast |-> FALSE, wasTerminal |-> FALSE,
               rowChanged |-> FALSE, first |-> FALSE]
  \* the history table has mounted and its effect has called load()
  /\ dateRange = NoRange
  /\ rows = {} /\ total = 0
  /\ isLoading = TRUE
  /\ tableUnavailable = FALSE
  /\ cacheRef = {}
  /\ inFlightRef = {getCacheKey(0, NoRange)}
  /\ activeRequestRef = getCacheKey(0, NoRange)
  /\ reads = [s \in ReadSlots |->
               IF s = 1 THEN [key |-> getCacheKey(0, NoRange), rows |-> {}, total |-> 0]
               ELSE NoRead]
  /\ modalReply = NoResponse
  /\ lastLoad = "read"
  /\ shownKey = NoKey
  /\ readFailed = FALSE
  /\ SignedIn

Init == InitPage /\ ViewClosed /\ ManageClosed

\* the wall clock advances
Tick ==
  /\ now < MaxNow
  /\ now' = now + 1
  /\ UNCHANGED <<variant, store, responses, pageVars, anchor, timerVars, slices>>
  /\ ops' = ops
  /\ lastOp' = Op("clock", 0, TRUE)

\* the wall clock is set back (clock adjusted, or the store's clock read ahead
\* of the client's): Date.now() returns less than before
ClockRewind ==
  /\ now > 0
  /\ now' = now - 1
  /\ UNCHANGED <<variant, store, responses, pageVars, anchor, timerVars, slices>>
  /\ ops' = ops
  /\ lastOp' = Op("clock", 0, TRUE)

\* an interval that is not cleared when the status leaves running
DisplayTickAnyStatus ==
  /\ Mounted
  /\ totalMs' = accumulatedMs + (now - runningStartRef)
  /\ UNCHANGED <<variant, now, store, responses, pageVars, anchor, status,
                 accumulatedMs, pauseCount, pausedMs, runningStartRef, pausedAtRef,
                 slices>>
  /\ ops' = ops
  /\ lastOp' = Op("tick", activeTask.id, TRUE)

\* the 250 ms interval of the ticking effect: redraw only
DisplayTick ==
  /\ Mounted
  /\ status = "running"
  /\ totalMs' = accumulatedMs + (now - runningStartRef)
  /\ UNCHANGED <<variant, now, store, responses, pageVars, anchor, status,
                 accumulatedMs, pauseCount, pausedMs, runningStartRef, pausedAtRef,
                 slices>>
  /\ ops' = ops
  /\ lastOp' = Op("tick", activeTask.id, TRUE)

\* TaskComposer.createTask (enabled while the page has no active task), then
\* Page.onTaskCreated and the first render of the stopwatch
CreateTask(id, ok) ==
  /\ ~Mounted
  /\ ~slices[id].made
  /\ \A t \in TaskIds : t < id => slices[t].made
  /\ Budget
  /\ IF ok
     THEN /\ store' = [store EXCEPT ![id] = NewTaskRow(id)]
          /\ activeTask' = NewTaskRow(id)
          /\ storedActiveTask' = IF variant = "anchor" THEN id ELSE storedActiveTask
          /\ refreshKey' = refreshKey + 1
          /\ SetTimer(TimerAfterProp(NoTask, NewTaskRow(id), anchor, Timer))
          /\ anchor' = SlotAfterProp(NoTask, NewTaskRow(id), anchor, Timer)
          /\ slices' = [slices EXCEPT ![id] = [made |-> TRUE, sum |-> 0, start |-> now, done |-> FALSE]]
     ELSE UNCHANGED <<store, pageVars, timerVars, anchor, slices>>
  /\ UNCHANGED <<variant, now, responses>>
  /\ ops' = ops + 1
  /\ lastOp' = Op("create", id, ok)

(* ---------------------- stopwatch: the transitions --------------------- *)
\* a pause patch that does not count the pause
PausePatchSameCount ==
  [status |-> "paused",
   accumulated_ms |-> accumulatedMs + (now - runningStartRef),
   pause_count |-> pauseCount,
   paused_ms |-> pausedMs,
   paused_at |-> now]

\* the patches handed to persist() by pause, resume, finish and cancel
PausePatch ==
  [status |-> "paused",
   accumulated_ms |-> accumulatedMs + (now - runningStartRef),
   pause_count |-> pauseCount + 1,
   paused_ms |-> pausedMs,
   paused_at |-> now]

PauseSliceMs == IF pausedAtRef # NULL THEN now - pausedAtRef ELSE 0

ResumePatch ==
  [status |-> "running",
   accumulated_ms |-> accumulatedMs,
   paused_ms |-> pausedMs + PauseSliceMs,
   paused_at |-> NULL]

\* a resume that keeps the start of the previous running slice
ResumeStartMsStale == runningStartRef

\* resume: runningStartRef.current = nowMs()
ResumeStartMs == now

FinalMs ==
  IF status = "running" THEN accumulatedMs + (now - runningStartRef) ELSE accumulatedMs

FinalPausedMs ==
  pausedMs + (IF status = "paused" /\ pausedAtRef # NULL THEN now - pausedAtRef ELSE 0)

\* a finish that leaves the current pause out of paused_ms
FinishPatchNoPauseSlice ==
  [status |-> "finished", ended_at |-> now, duration_ms |-> FinalMs,
   accumulated_ms |-> FinalMs, paused_ms |-> pausedMs, paused_at |-> NULL]

FinishPatch ==
  [status |-> "finished", ended_at |-> now, duration_ms |-> FinalMs,
   accumulated_ms |-> FinalMs, paused_ms |-> FinalPausedMs, paused_at |-> NULL]

\* a cancel that keeps the elapsed time
CancelPatchKeepsElapsed ==
  [status |-> "canceled", ended_at |-> now, duration_ms |-> FinalMs,
   accumulated_ms |-> FinalMs, paused_ms |-> FinalPausedMs, paused_at |-> NULL]

CancelPatch ==
  [status |-> "canceled", ended_at |-> now, duration_ms |-> 0,
   accumulated_ms |-> 0, paused_ms |-> FinalPausedMs, paused_at |-> NULL]

\* what the awaited persist() call will resolve to
Reply(kind, id, ok, newStore) ==
  [kind |-> kind, id |-> id, ok |-> ok /\ PersistTargets(store[id]),
   data |-> IF ok /\ PersistTargets(store[id]) THEN newStore[id] ELSE NoRow]

\* persist(patch) up to its await: the store applies the update, the reply is
\* on its way
Persist(kind, patch, ok) ==
  /\ store' = PersistedStore(activeTask.id, patch, ok)
  /\ responses' = [responses EXCEPT ![FreeSlot] = Reply(kind, activeTask.id, ok, store')]

\* handlers without their first line
ProceedsAlways(handler) == TRUE

\* pause: if (status !== "running") return;  resume: if (status !== "paused") return;
Proceeds(handler) ==
  IF handler = "pause" THEN status = "running" ELSE status = "paused"

\* a pause that leaves the local status and the displayed total to the reply
PauseLocalDeferred ==
  /\ accumulatedMs' = accumulatedMs + (now - runningStartRef)
  /\ pauseCount' = pauseCount + 1
  /\ pausedAtRef' = now
  /\ anchor' = NoAnchor
  /\ UNCHANGED <<status, totalMs, pausedMs, runningStartRef>>

\* pause(): optimistic local update, then persist
PauseLocal ==
  /\ accumulatedMs' = accumulatedMs + (now - runningStartRef)
  /\ totalMs' = accumulatedMs + (now - runningStartRef)
  /\ status' = "paused"
  /\ pauseCount' = pauseCount + 1
  /\ pausedAtRef' = now
  /\ anchor' = NoAnchor
  /\ UNCHANGED <<pausedMs, runningStartRef>>

Pause(ok) ==
  /\ Mounted
  /\ Proceeds("pause")
  /\ Pending < MaxInFlight
  /\ Budget
  /\ PauseLocal
  /\ Persist("pause", PausePatch, ok)
  /\ slices' = SliceClose(activeTask.id)
  /\ UNCHANGED <<variant, now, pageVars>>
  /\ ops' = ops + 1
  /\ lastOp' = Op("pause", activeTask.id, ok /\ PersistTargets(store[activeTask.id]))

\* resume(): optimistic local update, then persist
ResumeLocal ==
  /\ runningStartRef' = ResumeStartMs
  /\ anchor' = IF variant = "anchor"
               THEN writeStoredRunningStartMs(activeTask.id, ResumeStartMs)
               ELSE anchor
  /\ totalMs' = accumulatedMs
  /\ status' = "running"
  /\ pausedMs' = pausedMs + PauseSliceMs
  /\ pausedAtRef' = NULL
  /\ UNCHANGED <<accumulatedMs, pauseCount>>

Resume(ok) ==
  /\ Mounted
  /\ Proceeds("resume")
  /\ Pending < MaxInFlight
  /\ Budget
  /\ ResumeLocal
  /\ Persist("resume", ResumePatch, ok)
  /\ slices' = SliceOpen(activeTask.id)
  /\ UNCHANGED <<variant, now, pageVars>>
  /\ ops' = ops + 1
  /\ lastOp' = Op("resume", activeTask.id, ok /\ PersistTargets(store[activeTask.id]))

\* pause() or resume() called while its first line returns: nothing is set,
\* persist is not called
EarlyReturn(handler) ==
  /\ Mounted
  /\ ~Proceeds(handler)
  /\ UNCHANGED <<variant, now, store, responses, pageVars, anchor, timerVars, slices>>
  /\ ops' = ops
  /\ lastOp' = Op(IF handler = "pause" THEN "pause-ignored" ELSE "resume-ignored",
                  activeTask.id, TRUE)

\* finish() and cancel() up to `await persist(...)`: nothing local is set yet
Finish(ok) ==
  /\ Mounted
  /\ Pending < MaxInFlight
  /\ Budget
  /\ Persist("finish", FinishPatch, ok)
  /\ slices' = SliceEnd(activeTask.id)
  /\ UNCHANGED <<variant, now, pageVars, anchor, timerVars>>
  /\ ops' = ops + 1
  /\ lastOp' = Op("finish", activeTask.id, ok /\ PersistTargets(store[activeTask.id]))

Cancel(ok) ==
  /\ Mounted
  /\ Pending < MaxInFlight
  /\ Budget
  /\ Persist("cancel", CancelPatch, ok)
  /\ slices' = SliceEnd(activeTask.id)
  /\ UNCHANGED <<variant, now, pageVars, anchor, timerVars>>
  /\ ops' = ops + 1
  /\ lastOp' = Op("cancel", activeTask.id, ok /\ PersistTargets(store[activeTask.id]))

\* a persist() that hands the page the row of the store when its write failed
OnUpdatedRowRefetched(r) == IF r.ok THEN r.data ELSE store[r.id]

\* persist() after its await: onUpdated(data) on success; on error the toast and
\* return null, the page keeps the task it has
OnUpdatedRow(r) == IF r.ok THEN r.data ELSE activeTask

\* a persist() call resolves: on success Page.onTaskUpdated(row); finish and
\* cancel then go on to clear the anchor and call Page.onTaskEndedOrCanceled
Deliver(s) ==
  /\ responses[s] # NoResponse
  /\ LET r == responses[s]
         updated == OnUpdatedRow(r)
         bump == IF r.ok THEN 1 ELSE 0
     IN IF r.kind \in {"finish", "cancel"}
        THEN /\ activeTask' = NoTask
             /\ storedActiveTask' = IF variant = "anchor" THEN NULL ELSE storedActiveTask
             /\ anchor' = NoAnchor
             /\ refreshKey' = refreshKey + bump + 1
             /\ SetTimer(Unmounted)
        ELSE /\ activeTask' = updated
             /\ storedActiveTask' = storedActiveTask
             /\ anchor' = SlotAfterProp(activeTask, updated, anchor, Timer)
             /\ refreshKey' = refreshKey + bump
             /\ SetTimer(TimerAfterProp(activeTask, updated, anchor, Timer))
  /\ responses' = [responses EXCEPT ![s] = NoResponse]
  /\ UNCHANGED <<variant, now, store, slices>>
  /\ ops' = ops
  /\ lastOp' = [Op("deliver", responses[s].id, responses[s].ok) EXCEPT !.toast = ~responses[s].ok]

\* a lookup that takes any stored task for an active one
ActiveLookupAnyStatus(row) == row # NoRow

\* loadActiveTask: data && (data.status === "running" || data.status === "paused")
ActiveLookup(row) == row # NoRow /\ row.status \in ActiveStatuses

\* the page is loaded again (reload, tab reopened): React state starts over, the
\* replies of the old page's calls are never handled, localStorage stays; then
\* loadActiveTask looks up the task named in ACTIVE_TASK_KEY and, when it is
\* running or paused, the stopwatch mounts on it
Reload(outcome) ==
  /\ variant = "anchor"
  /\ Budget
  /\ responses' = [s \in Slots |-> NoResponse]
  /\ refreshKey' = 0
  /\ IF storedActiveTask = NULL
     THEN /\ activeTask' = NoTask
          /\ SetTimer(Unmounted)
          /\ UNCHANGED <<storedActiveTask, anchor>>
     ELSE IF outcome # "ok"
     THEN /\ activeTask' = NoTask
          /\ SetTimer(Unmounted)
          /\ storedActiveTask' = IF outcome = "missing" THEN NULL ELSE storedActiveTask
          /\ anchor' = IF outcome = "missing" THEN NoAnchor ELSE anchor
     ELSE IF ActiveLookup(store[storedActiveTask])
     THEN /\ activeTask' = store[storedActiveTask]
          /\ SetTimer(TimerAfterProp(NoTask, store[storedActiveTask], anchor, Unmounted))
          /\ anchor' = SlotAfterProp(NoTask, store[storedActiveTask], anchor, Unmounted)
          /\ UNCHANGED storedActiveTask
     ELSE /\ activeTask' = NoTask
          /\ SetTimer(Unmounted)
          /\ storedActiveTask' = NULL
          /\ anchor' = NoAnchor
  /\ UNCHANGED <<variant, now, store, slices>>
  /\ ops' = ops + 1
  /\ lastOp' = [Op("reload", Max(0, storedActiveTask), outcome = "ok")
                  EXCEPT !.toast = (storedActiveTask # NULL /\ outcome # "ok")]

\* POST /api/tasks/finalize with a valid body
ClientMsValues == {0 - 1, MaxClientMs}

Finalize(id, clientAccumulatedMs) ==
  /\ store[id] # NoRow
  /\ Budget
  /\ store' = IF FinalizeTargets(store[id])
              THEN [store EXCEPT ![id] = ApplyPatch(@, FinalizePatch(clientAccumulatedMs))]
              ELSE store
  /\ UNCHANGED <<variant, now, responses, pageVars, anchor, timerVars, slices>>
  /\ ops' = ops + 1
  /\ lastOp' = Op("finalize", id, TRUE)

(* ------------------- history table: load and settle -------------------- *)
\* a load() that always goes on to the query when the cache misses
InFlightNever(key) == FALSE

\* load, request already in flight: inFlightRef.current.has(cacheKey)
InFlight(key) == key \in inFlightRef

\* load() up to its await, run by the effect on [page, refreshKey, projectId,
\* userId, rangeKey]; st is the store the query is evaluated on
Load(key, range, st) ==
  IF tableUnavailable
  THEN /\ isLoading' = FALSE
       /\ activeRequestRef' = NoKey
       /\ lastLoad' = "off"
       /\ UNCHANGED <<rows, total, cacheRef, inFlightRef, reads, shownKey>>
  ELSE IF Cached(key) # {}
  THEN /\ isLoading' = FALSE
       /\ rows' = (CHOOSE e \in Cached(key) : TRUE).rows
       /\ total' = (CHOOSE e \in Cached(key) : TRUE).total
       /\ activeRequestRef' = NoKey
       /\ lastLoad' = "hit"
       /\ shownKey' = key
       /\ UNCHANGED <<cacheRef, inFlightRef, reads>>
  ELSE IF InFlight(key)
  THEN /\ lastLoad' = "yield"
       /\ UNCHANGED <<rows, total, isLoading, cacheRef, inFlightRef, activeRequestRef,
                      reads, shownKey>>
  ELSE /\ \E s \in ReadSlots : reads[s] = NoRead
       /\ inFlightRef' = inFlightRef \cup {key}
       /\ activeRequestRef' = key
       /\ isLoading' = TRUE
       /\ reads' = [reads EXCEPT ![FreeRead] =
                      [key |-> key, rows |-> QueryRows(st, range),
                       total |-> QueryCount(st, range)]]
       /\ lastLoad' = "read"
       /\ UNCHANGED <<rows, total, cacheRef, shownKey>>

\* a load() without the branch for a table that has no project
LoadForAnyProject(projectId, key, range, st) == Load(key, range, st)

\* load() from its top: if (!projectId) { setIsLoading(false); setRows([]);
\* setTotal(0); activeRequestRef.current = null; return; }
LoadFor(projectId, key, range, st) ==
  IF projectId = NoUser
  THEN /\ isLoading' = FALSE
       /\ rows' = {}
       /\ total' = 0
       /\ activeRequestRef' = NoKey
       /\ lastLoad' = "empty"
       /\ UNCHANGED <<cacheRef, inFlightRef, reads, shownKey>>
  ELSE Load(key, range, st)

\* a step that does not reach the history table ...
TableIdle ==
  /\ lastLoad' = "none"
  /\ UNCHANGED <<dateRange, rows, total, isLoading, tableUnavailable, cacheRef,
                 inFlightRef, activeRequestRef, reads, modalReply, shownKey, readFailed>>
  /\ UNCHANGED viewVars

\* ... and leaves the session (user, project, page caches) as it is
HistoryIdle == TableIdle /\ UNCHANGED <<sessVars, projVars>>

\* the table's effect after a step of the page: load() when refreshKey changed
TableEffect ==
  IF refreshKey' # refreshKey
  THEN /\ LoadFor(activeProjectId, getCacheKey(refreshKey', dateRange), dateRange, store')
       /\ UNCHANGED <<dateRange, tableUnavailable, modalReply, readFailed>>
       /\ UNCHANGED viewVars
  ELSE TableIdle

\* a step of the Manage Projects modal that reaches neither
HistoryIdleSession == TableIdle /\ UNCHANGED sessVars

\* ... of a step that leaves the session as it is
HistoryEffect == TableEffect /\ UNCHANGED <<sessVars, projVars>>

\* the edit and the delete modal cover the page while their call is on its way
ModalFree == modalReply = NoResponse

\* RangePicker onChange: setDateRange(value); setPage(0); then the effect
SetDateRange(range) ==
  /\ ModalFree
  /\ range # dateRange
  /\ dateRange' = range
  /\ LoadFor(activeProjectId, getCacheKey(refreshKey, range), range, store)
  /\ UNCHANGED <<variant, now, store, responses, pageVars, anchor, timerVars, slices,
                 tableUnavailable, modalReply, readFailed>>
  /\ UNCHANGED <<sessVars, viewVars, projVars>>
  /\ ops' = ops
  /\ lastOp' = Op("range", 0, TRUE)

\* a settle that leaves its key in the in-flight set
DeleteKeySkipped(keys, key) == keys

\* inFlightRef.current.delete(cacheKey)
DeleteKey(keys, key) == keys \ {key}

ReadOutcomes == {"ok", "error", "missing"}

\* load() after its await: the query of slot s settles
SettleRead(s, outcome) ==
  /\ reads[s] # NoRead
  /\ LET r == reads[s]
     IN IF activeRequestRef # r.key
        THEN /\ inFlightRef' = DeleteKey(inFlightRef, r.key)
             /\ UNCHANGED <<rows, total, isLoading, tableUnavailable, cacheRef,
                            activeRequestRef, shownKey, readFailed>>
        ELSE /\ isLoading' = FALSE
             /\ inFlightRef' = DeleteKey(inFlightRef, r.key)
             /\ activeRequestRef' = NoKey
             /\ IF outcome = "ok"
                THEN /\ rows' = r.rows
                     /\ total' = r.total
                     /\ cacheRef' = CacheSet(cacheRef, r.key, r.rows, r.total)
                     /\ shownKey' = r.key
                     /\ UNCHANGED <<tableUnavailable, readFailed>>
                ELSE /\ tableUnavailable' = (tableUnavailable \/ outcome = "missing")
                     /\ rows' = IF outcome = "missing" THEN {} ELSE rows
                     /\ total' = IF outcome = "missing" THEN 0 ELSE total
                     /\ readFailed' = TRUE
                     /\ UNCHANGED <<cacheRef, shownKey>>
  /\ reads' = [reads EXCEPT ![s] = NoRead]
  /\ lastLoad' = "none"
  /\ UNCHANGED <<variant, now, store, responses, pageVars, anchor, timerVars, slices,
                 dateRange, modalReply>>
  /\ UNCHANGED <<sessVars, viewVars, projVars>>
  /\ ops' = ops
  /\ lastOp' = Op("settle", 0, outcome = "ok")

\* EditTaskModal.save: the columns it writes
EditPatch(startedAt, endedAt) ==
  [started_at |-> startedAt, ended_at |-> endedAt,
   duration_ms |-> Max(0, endedAt - startedAt),
   accumulated_ms |-> Max(0, endedAt - startedAt)]

\* Edit (offered for displayed rows that are not running), then Save up to its
\* await: .update(...).eq("id", task.id)
EditSave(id, startedAt, endedAt, ok) ==
  /\ ModalFree
  /\ Budget
  /\ \E row \in rows : row.id = id /\ row.status # "running"
  /\ store' = IF ok /\ store[id] # NoRow
              THEN [store EXCEPT ![id] = ApplyPatch(@, EditPatch(startedAt, endedAt))]
              ELSE store
  /\ modalReply' = [kind |-> "edit", id |-> id, ok |-> ok /\ store[id] # NoRow,
                    data |-> IF ok /\ store[id] # NoRow THEN store'[id] ELSE NoRow]
  /\ lastLoad' = "none"
  /\ UNCHANGED <<variant, now, responses, pageVars, anchor, timerVars, slices,
                 dateRange, rows, total, isLoading, tableUnavailable, cacheRef,
                 inFlightRef, activeRequestRef, reads, shownKey, readFailed>>
  /\ UNCHANGED <<sessVars, viewVars, projVars>>
  /\ ops' = ops + 1
  /\ lastOp' = Op("edit", id, ok /\ store[id] # NoRow)

canDeleteAny(task) == TRUE

canDeleteTask(task) == task.status \in {"finished", "canceled"}

\* deleteTask up to its await: .delete().eq("id", task.id); what it does after
\* the await uses the total and the cache key of the render it was called in
DeleteTask(id, ok) ==
  /\ ModalFree
  /\ Budget
  /\ \E row \in rows : row.id = id /\ canDeleteTask(row)
  /\ store' = IF ok THEN [store EXCEPT ![id] = NoRow] ELSE store
  /\ modalReply' = [kind |-> "delete", id |-> id, ok |-> ok, key |-> CurrentKey,
                    total |-> total]
  /\ lastLoad' = "none"
  /\ UNCHANGED <<variant, now, responses, pageVars, anchor, timerVars, slices,
                 dateRange, rows, total, isLoading, tableUnavailable, cacheRef,
                 inFlightRef, activeRequestRef, reads, shownKey, readFailed>>
  /\ UNCHANGED <<sessVars, viewVars, projVars>>
  /\ ops' = ops + 1
  /\ lastOp' = Op("delete", id, ok)

\* deleteTask on a row that is neither finished nor canceled: the toast and
\* the return, before any call
DeleteRefused(id) ==
  /\ ModalFree
  /\ \E row \in rows : row.id = id /\ ~canDeleteTask(row)
  /\ lastLoad' = "none"
  /\ UNCHANGED <<variant, now, store, responses, pageVars, anchor, timerVars, slices,
                 dateRange, rows, total, isLoading, tableUnavailable, cacheRef,
                 inFlightRef, activeRequestRef, reads, modalReply, shownKey, readFailed>>
  /\ UNCHANGED <<sessVars, viewVars, projVars>>
  /\ ops' = ops
  /\ lastOp' = [Op("delete-refused", id, FALSE) EXCEPT !.toast = TRUE]

CeilDiv(a, b) == (a + b - 1) \div b
Min(a, b) == IF a <= b THEN a ELSE b

\* deleteTask after a successful delete
NextTotal(oldTotal) == Max(0, oldTotal - 1)
NextPage(oldTotal) == Min(page, Max(1, CeilDiv(NextTotal(oldTotal), PAGE_SIZE)) - 1)

\* the call of the modal settles: EditTaskModal onSaved maps the saved row into
\* rows; deleteTask drops the row from rows and rewrites the cache entry of its key
ModalSettle ==
  /\ modalReply # NoResponse
  /\ IF ~modalReply.ok
     THEN UNCHANGED <<rows, total, cacheRef>>
     ELSE IF modalReply.kind = "edit"
     THEN /\ rows' = {IF r.id = modalReply.id THEN modalReply.data ELSE r : r \in rows}
          /\ UNCHANGED <<total, cacheRef>>
     ELSE /\ total' = NextTotal(modalReply.total)
          /\ rows' = IF NextPage(modalReply.total) # page THEN rows
                     ELSE {r \in rows : r.id # modalReply.id}
          /\ cacheRef' = IF NextPage(modalReply.total) # page THEN cacheRef
                         ELSE CacheSet(cacheRef, modalReply.key, rows',
                                       NextTotal(modalReply.total))
  /\ modalReply' = NoResponse
  /\ lastLoad' = "none"
  /\ UNCHANGED <<variant, now, store, responses, pageVars, anchor, timerVars, slices,
                 dateRange, isLoading, tableUnavailable, inFlightRef, activeRequestRef,
                 reads, shownKey, readFailed>>
  /\ UNCHANGED <<sessVars, viewVars, projVars>>
  /\ ops' = ops
  /\ lastOp' = Op("modal", modalReply.id, modalReply.ok)

(* ------------------- page: user, projects, profile --------------------- *)
\* a cache check that does not compare the user id
CacheIsForAnyone(cache, u) == cache # NoCache

\* cache?.userId === user.id
CacheIsFor(cache, u) == cache # NoCache /\ cache.userId = u

\* the tasks of the model belong to user 1 and to project 1
TaskOwner == 1

\* loadActiveTask's query: .eq("id", taskId).eq("project_id", p).eq("user_id", u)
LookupRow(u, p, taskId) ==
  IF u = TaskOwner /\ p = TaskOwner THEN store[taskId] ELSE NoRow

\* loadActiveTask up to its await, called for user u and project p with the
\* in-flight marker `marker`: what it does
LookupStep(u, p, marker) ==
  IF u = NoUser \/ p = NoUser THEN "clear"
  ELSE IF storedActiveTask = NULL \/ p # TaskOwner THEN "clear"
  ELSE IF marker = <<u, p, storedActiveTask>> THEN "discard"
  ELSE "read"

LookupQuery(u, p) ==
  [kind |-> "lookup", userId |-> u, key |-> <<u, p, storedActiveTask>>,
   data |-> LookupRow(u, p, storedActiveTask)]

\* onAuthStateChange / initAuth hands the page the user u (NoUser: no session):
\* setUser, setProfileUsername, then the effects in the order they are declared:
\* loadProjects, the reset on user?.id, loadProfile, loadActiveTask; when
\* loadProjects applied cached projects and the selected project changed,
\* loadActiveTask runs once more
AuthEvent(u) ==
  LET idChanged == u # user
      projectsHit == u # NoUser /\ ~projectsUnavailableRef /\ CacheIsFor(projectsCacheRef, u)
      projectsRead == /\ u # NoUser /\ ~projectsUnavailableRef /\ ~projectsHit
                      /\ projectsInFlightRef # u
      profileCache == IF idChanged THEN NoCache ELSE profileCacheRef
      profileMarker == IF idChanged THEN NoUser ELSE profileInFlightRef
      profileHit == u # NoUser /\ CacheIsFor(profileCache, u)
      profileRead == u # NoUser /\ ~profileHit /\ profileMarker # u
      nextProject == IF projectsHit THEN projectsCacheRef.projects ELSE activeProjectId
      first == LookupStep(u, activeProjectId, activeTaskInFlightRef)
      markerAfterFirst == IF first = "read" THEN <<u, activeProjectId, storedActiveTask>>
                          ELSE activeTaskInFlightRef
      second == IF nextProject = activeProjectId THEN "none"
                ELSE LookupStep(u, nextProject, markerAfterFirst)
      cleared == second = "clear" \/ (second = "none" /\ first = "clear")
      issued ==
        (IF projectsRead THEN <<[kind |-> "projects", userId |-> u]>> ELSE <<>>)
        \o (IF profileRead THEN <<[kind |-> "profile", userId |-> u]>> ELSE <<>>)
        \o (IF first = "read" THEN <<LookupQuery(u, activeProjectId)>> ELSE <<>>)
        \o (IF second = "read" THEN <<LookupQuery(u, nextProject)>> ELSE <<>>)
  IN
  /\ variant = "anchor"
  /\ Len(queries) + Len(issued) <= MaxQueries
  /\ user' = u
  /\ projects' = IF projectsHit THEN projectsCacheRef.projects ELSE projects
  /\ activeProjectId' = nextProject
  /\ projectsUnavailableRef' = IF idChanged THEN FALSE ELSE projectsUnavailableRef
  /\ projectsCacheRef' = IF idChanged THEN NoCache ELSE projectsCacheRef
  /\ projectsInFlightRef' = IF idChanged THEN NoUser
                            ELSE IF projectsRead THEN u ELSE projectsInFlightRef
  /\ profileCacheRef' = profileCache
  /\ profileInFlightRef' = IF profileRead THEN u ELSE profileMarker
  /\ profileUsername' = IF profileHit THEN profileCache.username ELSE u
  /\ activeTaskInFlightRef' =
        IF second = "read" THEN <<u, nextProject, storedActiveTask>> ELSE markerAfterFirst
  /\ queries' = queries \o issued
  /\ lastServed' = [projects |-> IF projectsHit THEN projectsCacheRef.projects ELSE NoUser,
                    profile |-> IF profileHit THEN profileCache.username ELSE NoUser]
  /\ IF cleared
     THEN activeTask' = NoTask /\ SetTimer(Unmounted)
     ELSE UNCHANGED <<activeTask, timerVars>>
  /\ UNCHANGED <<variant, now, store, responses, storedActiveTask, anchor, refreshKey,
                 slices, activeTaskRequestRef>>
  /\ UNCHANGED projVars
  /\ TableIdle
  /\ ops' = ops
  /\ lastOp' = Op("auth", 0, TRUE)

\* signOut(): after auth.signOut() the localStorage keys, the page state and
\* every ref are cleared; queries on their way stay on their way
SignOut ==
  /\ variant = "anchor"
  /\ user # NoUser
  /\ user' = NoUser /\ activeProjectId' = NoUser /\ projects' = NoUser
  /\ profileUsername' = NoUser
  /\ projectsUnavailableRef' = FALSE
  /\ projectsCacheRef' = NoCache /\ projectsInFlightRef' = NoUser
  /\ profileCacheRef' = NoCache /\ profileInFlightRef' = NoUser
  /\ activeTaskInFlightRef' = NoKey
  /\ storedActiveTask' = NULL /\ anchor' = NoAnchor
  /\ activeTask' = NoTask /\ SetTimer(Unmounted)
  /\ lastServed' = NothingServed
  /\ UNCHANGED <<variant, now, store, responses, refreshKey, slices, queries,
                 activeTaskRequestRef>>
  /\ UNCHANGED projVars
  /\ TableIdle
  /\ ops' = ops
  /\ lastOp' = Op("signout", 0, TRUE)

RemoveAt(seq, i) == SubSeq(seq, 1, i - 1) \o SubSeq(seq, i + 1, Len(seq))

\* the reply of the page's i-th query on its way arrives (user, in the handlers,
\* is the user of the render that issued the query)
QuerySettle(i, outcome) ==
  LET q == queries[i]
      rest == RemoveAt(queries, i)
      applied == q.kind = "projects" /\ (outcome = "ok" \/ outcome = "missing")
      nextProject == IF ~applied THEN activeProjectId
                     ELSE IF outcome = "ok" THEN q.userId ELSE NoUser
      marker == IF q.kind = "lookup" THEN NoKey ELSE activeTaskInFlightRef
      again == IF nextProject = activeProjectId THEN "none"
               ELSE LookupStep(user, nextProject, marker)
      found == q.kind = "lookup" /\ outcome = "ok" /\ ActiveLookup(q.data)
      dropped == q.kind = "lookup" /\ (outcome = "missing" \/ (outcome = "ok" /\ ~found))
  IN
  /\ variant = "anchor"
  /\ i \in 1..Len(queries)
  /\ queries' = IF again = "read" THEN Append(rest, LookupQuery(user, nextProject)) ELSE rest
  /\ projectsInFlightRef' = IF q.kind = "projects" THEN NoUser ELSE projectsInFlightRef
  /\ projectsUnavailableRef' =
        (projectsUnavailableRef \/ (q.kind = "projects" /\ outcome = "missing"))
  /\ projectsCacheRef' = IF q.kind = "projects" /\ outcome = "ok"
                         THEN [userId |-> q.userId, projects |-> q.userId]
                         ELSE projectsCacheRef
  /\ projects' = IF applied THEN nextProject ELSE projects
  /\ activeProjectId' = nextProject
  /\ profileInFlightRef' = IF q.kind = "profile" THEN NoUser ELSE profileInFlightRef
  /\ profileCacheRef' = IF q.kind = "profile" /\ outcome = "ok"
                        THEN [userId |-> q.userId, username |-> q.userId]
                        ELSE profileCacheRef
  /\ profileUsername' = IF q.kind # "profile" \/ outcome = "error" THEN profileUsername
                        ELSE IF outcome = "ok" THEN q.userId ELSE NoUser
  /\ activeTaskInFlightRef' =
        IF again = "read" THEN <<user, nextProject, storedActiveTask>> ELSE marker
  /\ IF found
     THEN /\ activeTask' = q.data
          /\ SetTimer(TimerAfterProp(activeTask, q.data, anchor, Timer))
          /\ anchor' = SlotAfterProp(activeTask, q.data, anchor, Timer)
          /\ UNCHANGED storedActiveTask
     ELSE IF dropped
     THEN /\ activeTask' = NoTask /\ SetTimer(Unmounted)
          /\ storedActiveTask' = NULL /\ anchor' = NoAnchor
     ELSE IF again = "clear"
     THEN /\ activeTask' = NoTask /\ SetTimer(Unmounted)
          /\ UNCHANGED <<storedActiveTask, anchor>>
     ELSE UNCHANGED <<activeTask, timerVars, storedActiveTask, anchor>>
  /\ lastServed' = NothingServed
  /\ UNCHANGED <<variant, now, store, responses, refreshKey, slices, user,
                 activeTaskRequestRef>>
  /\ UNCHANGED projVars
  /\ TableIdle
  /\ ops' = ops
  /\ lastOp' = [Op("query", 0, outcome = "ok") EXCEPT !.toast = (outcome # "ok")]

(* ------------------- page: the Manage Projects modal -------------------- *)
\* the tasks of the user's project in the store
ProjectTaskCount(st) == Cardinality({t \in TaskIds : st[t] # NoRow})

\* the modal covers the page while it is open; it is closed once its counts
\* have arrived
ManageFree == countQuery = NoQuery

\* loadProjectTaskCounts, forEach: nextCounts[result.id] = result.error ? 0 :
\* result.count ?? 0
CountOfResult(result) == IF result.error THEN 0 ELSE result.count

\* the Delete button of a project: typeof taskCount === "number" &&
\* taskCount === 0 && !manageProjectsLoading
canDelete(taskCount, loading) == taskCount # NoCount /\ taskCount = 0 /\ ~loading

\* openManageProjects: loadProjectTaskCounts up to its await; one count query
\* per listed project, answered from the store as it is now (count is null,
\* read as 0, when the query fails)
LoadProjectTaskCounts(ok) ==
  /\ variant = "anchor"
  /\ user # NoUser
  /\ ManageFree
  /\ manageProjectsLoading' = TRUE
  /\ countQuery' = [state |-> "pending", listed |-> projects # NoUser,
                    count |-> IF ok THEN ProjectTaskCount(store) ELSE 0,
                    error |-> ~ok]
  /\ UNCHANGED <<projectTaskCounts, projectReply>>
  /\ UNCHANGED <<variant, now, store, responses, pageVars, anchor, timerVars, slices>>
  /\ HistoryIdleSession
  /\ ops' = ops
  /\ lastOp' = Op("counts", 0, ok)

\* loadProjectTaskCounts after its await
CountsSettle ==
  /\ countQuery.state = "pending"
  /\ projectTaskCounts' = IF countQuery.listed THEN CountOfResult(countQuery) ELSE NoCount
  /\ manageProjectsLoading' = FALSE
  /\ countQuery' = [countQuery EXCEPT !.state = "settled"]
  /\ UNCHANGED projectReply
  /\ UNCHANGED <<variant, now, store, responses, pageVars, anchor, timerVars, slices>>
  /\ HistoryIdleSession
  /\ ops' = ops
  /\ lastOp' = [Op("counts-settle", 0, ~countQuery.error) EXCEPT
                  !.toast = (countQuery.listed /\ countQuery.error)]

\* closeManageProjects
CloseManageProjects ==
  /\ countQuery.state = "settled"
  /\ projectReply = NoResponse
  /\ countQuery' = NoQuery
  /\ UNCHANGED <<projectTaskCounts, manageProjectsLoading, projectReply>>
  /\ UNCHANGED <<variant, now, store, responses, pageVars, anchor, timerVars, slices>>
  /\ HistoryIdleSession
  /\ ops' = ops
  /\ lastOp' = Op("close", 0, TRUE)

\* the Delete button of the listed project, then deleteProject up to its await;
\* the store deletes the project's tasks with it (tasks.project_id references
\* projects on delete cascade)
DeleteProject(ok) ==
  /\ variant = "anchor"
  /\ user # NoUser /\ projects # NoUser
  /\ countQuery.state # "none"
  /\ projectReply = NoResponse
  /\ canDelete(projectTaskCounts, manageProjectsLoading)
  /\ store' = IF ok THEN [t \in TaskIds |-> NoRow] ELSE store
  /\ projectReply' = [kind |-> "delete-project", ok |-> ok]
  /\ UNCHANGED <<projectTaskCounts, manageProjectsLoading, countQuery>>
  /\ UNCHANGED <<variant, now, responses, pageVars, anchor, timerVars, slices>>
  /\ HistoryIdleSession
  /\ ops' = ops + 1
  /\ lastOp' = Op("delete-project", 0, ok)

\* HistoryTable is keyed by user and project: when the project changes a new
\* instance mounts (useState and useRef initialisers) and its effect calls
\* load(); replies to the queries of the old instance reach no state
MountTable(projectId, rk, st) ==
  /\ dateRange' = NoRange
  /\ tableUnavailable' = FALSE
  /\ cacheRef' = {}
  /\ modalReply' = NoResponse
  /\ shownKey' = NoKey
  /\ viewTask' = NoRow /\ viewFigures' = NoFigures
  /\ rows' = {} /\ total' = 0
  /\ UNCHANGED readFailed
  /\ IF projectId = NoUser
     THEN /\ isLoading' = FALSE
          /\ activeRequestRef' = NoKey
          /\ inFlightRef' = {}
          /\ reads' = [s \in ReadSlots |-> NoRead]
          /\ lastLoad' = "empty"
     ELSE /\ isLoading' = TRUE
          /\ activeRequestRef' = getCacheKey(rk, NoRange)
          /\ inFlightRef' = {getCacheKey(rk, NoRange)}
          /\ reads' = [s \in ReadSlots |->
                        IF s = 1
                        THEN [key |-> getCacheKey(rk, NoRange),
                              rows |-> QueryRows(st, NoRange),
                              total |-> QueryCount(st, NoRange)]
                        ELSE NoRead]
          /\ lastLoad' = "read"

\* deleteProject after its await: on success the list without the project is
\* cached and applied (applyProjects: no project is left to select), the
\* project's count is dropped; then the effect of loadActiveTask and the table
DeleteProjectSettle ==
  /\ projectReply # NoResponse
  /\ projectReply' = NoResponse
  /\ IF projectReply.ok
     THEN /\ projectsCacheRef' = [userId |-> user, projects |-> NoUser]
          /\ projects' = NoUser
          /\ activeProjectId' = NoUser
          /\ projectTaskCounts' = NoCount
          /\ activeTask' = NoTask /\ SetTimer(Unmounted)
          /\ MountTable(NoUser, refreshKey, store)
     ELSE /\ UNCHANGED <<projectsCacheRef, projects, activeProjectId, projectTaskCounts,
                         activeTask, timerVars>>
          /\ TableIdle
  /\ lastServed' = NothingServed
  /\ UNCHANGED <<manageProjectsLoading, countQuery>>
  /\ UNCHANGED <<variant, now, store, responses, storedActiveTask, anchor, refreshKey,
                 slices, user, profileUsername, projectsUnavailableRef,
                 projectsInFlightRef, profileCacheRef, profileInFlightRef,
                 activeTaskInFlightRef, activeTaskRequestRef, queries>>
  /\ ops' = ops
  /\ lastOp' = [Op("project-deleted", 0, projectReply.ok) EXCEPT !.toast = ~projectReply.ok]

(* ---------------- page of the sync build: realtime channel -------------- *)
\* a change of a tasks row as the database reports it: the kind of change, the
\* row's user, project and status, and whether the table's replica identity
\* makes the old record carry every column (full) or the primary key only
ChangeEvents ==
  [type : {"INSERT", "UPDATE", "DELETE"}, user_id : UserIds, project_id : UserIds,
   status : {"running", "finished"}, full : BOOLEAN]

\* a record of the payload: the columns the handler reads; 0 and "undefined"
\* stand for a column the record does not carry
Record(ev) == [user_id |-> ev.user_id, project_id |-> ev.project_id, status |-> ev.status]
EmptyRecord == [user_id |-> 0, project_id |-> 0, status |-> "undefined"]
Nullish == [nullish |-> TRUE]

\* the payload the realtime client hands to the callback: `new` is the record
\* of an insert or update and {} of a delete; `old` is {} of an insert and the
\* old record (all columns, or the primary key only) of an update or delete
PayloadOf(ev) ==
  [new |-> IF ev.type = "DELETE" THEN EmptyRecord ELSE Record(ev),
   old |-> IF ev.type = "INSERT" \/ ~ev.full THEN EmptyRecord ELSE Record(ev)]

\* payload.new ?? payload.old
PayloadRow(payload) == IF payload.new = Nullish THEN payload.old ELSE payload.new

\* the callback's early returns: no row, another user, another project, a
\* status outside the four
ChannelAccepts(payload) ==
  LET row == PayloadRow(payload)
  IN /\ row # Nullish
     /\ row.user_id = user
     /\ row.project_id = activeProjectId
     /\ row.status \in ActiveStatuses \cup TerminalStatuses

Later(a, b) ==
  a.updated_at > b.updated_at
    \/ (a.updated_at = b.updated_at /\ a.updated_at_sub >= b.updated_at_sub)

\* fetchActiveTask's query: the user's running or paused task of the project
\* that was updated last, or none
NewestActive(u, p) ==
  LET ids == {t \in TaskIds : store[t] # NoRow /\ store[t].status \in ActiveStatuses}
  IN IF u # TaskOwner \/ p # TaskOwner \/ ids = {} THEN NoTask
     ELSE store[CHOOSE t \in ids : \A o \in ids : Later(store[t], store[o])]

\* the channel delivers the change ev to the callback: fetchActiveTask() up to
\* its await and setRefreshKey, then the history table's effect
Notify(ev) ==
  /\ variant = "sync"
  /\ user # NoUser /\ activeProjectId # NoUser
  /\ IF ChannelAccepts(PayloadOf(ev))
     THEN /\ activeTaskRequestRef < MaxRequests
          /\ Len(queries) < MaxQueries
          /\ activeTaskRequestRef' = activeTaskRequestRef + 1
          /\ queries' = Append(queries,
                [kind |-> "fetch", userId |-> user, requestId |-> activeTaskRequestRef + 1,
                 data |-> NewestActive(user, activeProjectId)])
          /\ refreshKey' = refreshKey + 1
     ELSE UNCHANGED <<activeTaskRequestRef, queries, refreshKey>>
  /\ UNCHANGED <<variant, now, store, responses, activeTask, storedActiveTask, anchor,
                 timerVars, slices, user, activeProjectId, projects, profileUsername,
                 projectsUnavailableRef, projectsCacheRef, projectsInFlightRef,
                 profileCacheRef, profileInFlightRef, activeTaskInFlightRef, lastServed>>
  /\ UNCHANGED projVars
  /\ TableEffect
  /\ ops' = ops
  /\ lastOp' = Op("notify", 0, TRUE) @@ [event |-> ev]

\* fetchActiveTask after its await
FetchSettle(i, outcome) ==
  /\ variant = "sync"
  /\ i \in 1..Len(queries)
  /\ queries[i].kind = "fetch"
  /\ queries' = RemoveAt(queries, i)
  /\ LET q == queries[i]
         next == IF outcome = "ok" THEN q.data ELSE NoTask
     IN IF activeTaskRequestRef # q.requestId \/ outcome = "error"
        THEN UNCHANGED <<activeTask, timerVars, anchor>>
        ELSE /\ activeTask' = next
             /\ SetTimer(TimerAfterProp(activeTask, next, anchor, Timer))
             /\ anchor' = SlotAfterProp(activeTask, next, anchor, Timer)
  /\ UNCHANGED <<variant, now, store, responses, storedActiveTask, refreshKey, slices,
                 user, activeProjectId, projects, profileUsername,
                 projectsUnavailableRef, projectsCacheRef, projectsInFlightRef,
                 profileCacheRef, profileInFlightRef, activeTaskInFlightRef,
                 activeTaskRequestRef, lastServed>>
  /\ UNCHANGED projVars
  /\ TableIdle
  /\ ops' = ops
  /\ lastOp' = [Op("fetch", 0, outcome = "ok") EXCEPT
                  !.toast = (activeTaskRequestRef = queries[i].requestId /\ outcome # "ok")]

(* ------------------- taskStatus.ts and the view modal ------------------- *)
\* getPausedMs: `??` passes over null only, and a timestamp that does not parse
\* makes getTime() NaN, for which the base figure is returned
getPausedMs(task) ==
  LET baseMs == Max(0, Coalesce(task.paused_ms, 0))
      pausedAt == Coalesce(task.paused_at, Coalesce(task.updated_at, task.started_at))
      pausedAtMs == IF pausedAt = NULL THEN Invalid ELSE pausedAt
  IN IF task.status # "paused" THEN baseMs
     ELSE IF pausedAtMs = Invalid THEN baseMs
     ELSE Max(0, baseMs + (now - pausedAtMs))

getDisplayDurationAccumulated(task) == task.accumulated_ms

getDisplayDurationMs(task) ==
  IF task.status \in {"finished", "canceled"} THEN task.duration_ms
  ELSE task.accumulated_ms

\* the rows the view modal can be handed: every status, every figure, and
\* timestamps that are missing, unparseable or an instant of the clock
ViewTimes == {NULL, Invalid} \cup (0..MaxNow)
ViewRows ==
  [id : {1}, status : {"running", "paused", "finished", "canceled"},
   paused_ms : (-2)..MaxClientMs,   \* null, a negative figure or a figure
   paused_at : ViewTimes, updated_at : ViewTimes, started_at : ViewTimes,
   accumulated_ms : 0..MaxClientMs, duration_ms : 0..MaxClientMs]

\* the view modal renders its row: Duration and Paused Time
RenderView ==
  /\ viewTask # NoRow
  /\ viewFigures' = [durationMs |-> getDisplayDurationMs(viewTask),
                     pausedMs |-> getPausedMs(viewTask)]
  /\ lastLoad' = "none"
  /\ UNCHANGED <<variant, now, store, responses, pageVars, anchor, timerVars, slices,
                 dateRange, rows, total, isLoading, tableUnavailable, cacheRef,
                 inFlightRef, activeRequestRef, reads, modalReply, shownKey, readFailed,
                 sessVars, viewTask, projVars>>
  /\ ops' = ops
  /\ lastOp' = Op("view", viewTask.id, TRUE)

\* the page, the stopwatch and the store; the history table stays as mounted
Next ==
  \/ Tick /\ HistoryIdle
  \/ DisplayTick /\ HistoryIdle
  \/ \E id \in TaskIds, ok \in BOOLEAN : CreateTask(id, ok) /\ HistoryIdle
  \/ \E ok \in BOOLEAN : Pause(ok) /\ HistoryIdle
  \/ \E ok \in BOOLEAN : Resume(ok) /\ HistoryIdle
  \/ \E ok \in BOOLEAN : Finish(ok) /\ HistoryIdle
  \/ \E ok \in BOOLEAN : Cancel(ok) /\ HistoryIdle
  \/ \E s \in Slots : Deliver(s) /\ HistoryIdle
  \/ \E id \in TaskIds, ms \in ClientMsValues : Finalize(id, ms) /\ HistoryIdle

Spec == Init /\ [][Next]_vars

\* the anchor build alone, the sync build alone
InitAnchor == Init /\ variant = "anchor"
InitSync == Init /\ variant = "sync"
SpecAnchor == InitAnchor /\ [][Next]_vars
SpecSync == InitSync /\ [][Next]_vars

\* the same with pause and resume also called when their guard returns
NextGuards ==
  \/ Next
  \/ \E handler \in {"pause", "resume"} : EarlyReturn(handler) /\ HistoryIdle

SpecGuards == Init /\ [][NextGuards]_vars

\* the same with a wall clock that may be set back
NextClock ==
  \/ Next
  \/ ClockRewind /\ HistoryIdle

SpecClock == Init /\ [][NextClock]_vars

\* a page load over what an earlier session left behind: any active row for the
\* stored task (timestamps that parse or not), any content of the anchor slot
MountTimes == (0..MaxNow) \cup {Invalid}

AnchorSlots ==
  {NoAnchor} \cup [taskId : 0..MaxTasks, runningStartMs : {NULL} \cup (0..MaxNow)]

MountRows ==
  {r \in [id : {1}, status : ActiveStatuses, started_at : MountTimes, ended_at : {NULL},
          accumulated_ms : 0..1, duration_ms : {0}, pause_count : 0..1, paused_ms : {0},
          paused_at : {NULL} \cup MountTimes, updated_at : MountTimes,
          updated_at_sub : {0}] :
     /\ r.status = "running" => (r.paused_at = NULL)
     /\ r.pause_count = (IF r.status = "paused" THEN 1 ELSE 0)}

InitMount ==
  /\ variant = "anchor"
  /\ now \in 0..MaxNow
  /\ \E r \in MountRows : store = [t \in TaskIds |-> IF t = 1 THEN r ELSE NoRow]
  /\ responses = [s \in Slots |-> NoResponse]
  /\ activeTask = NoTask
  /\ storedActiveTask = 1
  /\ anchor \in AnchorSlots
  /\ refreshKey = 0
  /\ status = "none" /\ accumulatedMs = 0 /\ totalMs = 0 /\ pauseCount = 0
  /\ pausedMs = 0 /\ runningStartRef = NULL /\ pausedAtRef = NULL
  /\ ops = 0
  /\ slices = [t \in TaskIds |-> IF t = 1 THEN [NoSlices EXCEPT !.made = TRUE] ELSE NoSlices]
  /\ lastOp = [op |-> "init", id |-> 0, ok |-> TRUE, toast |-> FALSE, wasTerminal |-> FALSE,
               rowChanged |-> FALSE, first |-> FALSE]
  /\ dateRange = NoRange
  /\ rows = {} /\ total = 0
  /\ isLoading = TRUE
  /\ tableUnavailable = FALSE
  /\ cacheRef = {}
  /\ inFlightRef = {getCacheKey(0, NoRange)}
  /\ activeRequestRef = getCacheKey(0, NoRange)
  /\ reads = [s \in ReadSlots |->
               IF s = 1 THEN [key |-> getCacheKey(0, NoRange), rows |-> {}, total |-> 0]
               ELSE NoRead]
  /\ modalReply = NoResponse
  /\ lastLoad = "read"
  /\ shownKey = NoKey
  /\ readFailed = FALSE
  /\ SignedIn
  /\ ViewClosed
  /\ ManageClosed

NextMount ==
  \/ \E outcome \in ReadOutcomes : Reload(outcome) /\ HistoryIdle
  \/ Tick /\ HistoryIdle
  \/ DisplayTick /\ HistoryIdle

SpecMount == InitMount /\ [][NextMount]_vars

\* a task has been created at time 0 and its stopwatch has mounted: the state
\* CreateTask(1, TRUE) leaves, taken as the start of MaxOps further events
InitRunning ==
  /\ variant \in Variants
  /\ now = 0
  /\ store = [t \in TaskIds |-> IF t = 1 THEN NewTaskRow(1) ELSE NoRow]
  /\ responses = [s \in Slots |-> NoResponse]
  /\ activeTask = NewTaskRow(1)
  /\ storedActiveTask = (IF variant = "anchor" THEN 1 ELSE NULL)
  /\ anchor = (IF variant = "anchor" THEN writeStoredRunningStartMs(1, 0) ELSE NoAnchor)
  /\ refreshKey = 1
  /\ status = "running" /\ accumulatedMs = 0 /\ totalMs = 0 /\ pauseCount = 0
  /\ pausedMs = 0 /\ runningStartRef = 0 /\ pausedAtRef = NULL
  /\ ops = 0
  /\ slices = [t \in TaskIds |->
                IF t = 1 THEN [made |-> TRUE, sum |-> 0, start |-> 0, done |-> FALSE]
                ELSE NoSlices]
  /\ lastOp = [op |-> "create", id |-> 1, ok |-> TRUE, toast |-> FALSE,
               wasTerminal |-> FALSE, rowChanged |-> TRUE, first |-> TRUE]
  /\ dateRange = NoRange
  /\ rows = {} /\ total = 0
  /\ isLoading = TRUE
  /\ tableUnavailable = FALSE
  /\ cacheRef = {}
  /\ inFlightRef = {getCacheKey(0, NoRange)}
  /\ activeRequestRef = getCacheKey(0, NoRange)
  /\ reads = [s \in ReadSlots |->
               IF s = 1 THEN [key |-> getCacheKey(0, NoRange), rows |-> {}, total |-> 0]
               ELSE NoRead]
  /\ modalReply = NoResponse
  /\ lastLoad = "none"
  /\ shownKey = NoKey
  /\ readFailed = FALSE
  /\ SignedIn
  /\ ViewClosed
  /\ ManageClosed

\* the page of src/app/page.tsx with reloads, from a task just created
InitRunningAnchor == InitRunning /\ variant = "anchor"

NextReload ==
  \/ Next
  \/ \E outcome \in ReadOutcomes : Reload(outcome) /\ HistoryIdle

SpecReload == InitRunningAnchor /\ [][NextReload]_vars

\* the page and the stopwatch with store calls that all succeed
NextSteady ==
  \/ Tick /\ HistoryIdle
  \/ DisplayTick /\ HistoryIdle
  \/ \E id \in TaskIds : CreateTask(id, TRUE) /\ HistoryIdle
  \/ Pause(TRUE) /\ HistoryIdle
  \/ Resume(TRUE) /\ HistoryIdle
  \/ Finish(TRUE) /\ HistoryIdle
  \/ Cancel(TRUE) /\ HistoryIdle
  \/ \E s \in Slots : Deliver(s) /\ HistoryIdle

SpecSteady == InitRunning /\ [][NextSteady]_vars

\* the view modal open on any row, rendered as the clock advances
InitView ==
  /\ InitPage /\ variant = "anchor" /\ ManageClosed
  /\ viewTask \in ViewRows /\ viewFigures = NoFigures

NextView ==
  \/ RenderView
  \/ Tick /\ HistoryIdle

SpecView == InitView /\ [][NextView]_vars

\* the page of src/app/page.tsx has just mounted, no user is known yet; task 1
\* is running in the store and named in localStorage since an earlier visit
InitSession ==
  /\ variant = "anchor"
  /\ now = 0
  /\ store = [t \in TaskIds |-> IF t = 1 THEN NewTaskRow(1) ELSE NoRow]
  /\ responses = [s \in Slots |-> NoResponse]
  /\ activeTask = NoTask
  /\ storedActiveTask = 1
  /\ anchor = writeStoredRunningStartMs(1, 0)
  /\ refreshKey = 0
  /\ status = "none" /\ accumulatedMs = 0 /\ totalMs = 0 /\ pauseCount = 0
  /\ pausedMs = 0 /\ runningStartRef = NULL /\ pausedAtRef = NULL
  /\ ops = 0
  /\ slices = [t \in TaskIds |->
                IF t = 1 THEN [made |-> TRUE, sum |-> 0, start |-> 0, done |-> FALSE]
                ELSE NoSlices]
  /\ lastOp = [op |-> "init", id |-> 0, ok |-> TRUE, toast |-> FALSE, wasTerminal |-> FALSE,
               rowChanged |-> FALSE, first |-> FALSE]
  /\ dateRange = NoRange
  /\ rows = {} /\ total = 0
  /\ isLoading = FALSE
  /\ tableUnavailable = FALSE
  /\ cacheRef = {}
  /\ inFlightRef = {}
  /\ activeRequestRef = NoKey
  /\ reads = [s \in ReadSlots |-> NoRead]
  /\ modalReply = NoResponse
  /\ lastLoad = "none"
  /\ shownKey = NoKey
  /\ readFailed = FALSE
  /\ user = NoUser /\ activeProjectId = NoUser /\ projects = NoUser
  /\ profileUsername = NoUser
  /\ projectsUnavailableRef = FALSE
  /\ projectsCacheRef = NoCache /\ projectsInFlightRef = NoUser
  /\ profileCacheRef = NoCache /\ profileInFlightRef = NoUser
  /\ activeTaskInFlightRef = NoKey
  /\ activeTaskRequestRef = 0
  /\ queries = <<>>
  /\ lastServed = NothingServed
  /\ ViewClosed
  /\ ManageClosed

\* the session: auth events, the replies of the page's queries, and tasks
\* started by user 1 in project 1
NextSession ==
  \/ \E u \in {NoUser} \cup UserIds : AuthEvent(u)
  \/ SignOut
  \/ \E i \in 1..MaxQueries, outcome \in ReadOutcomes : QuerySettle(i, outcome)
  \/ \E id \in TaskIds :
        /\ user = TaskOwner /\ activeProjectId = TaskOwner
        /\ CreateTask(id, TRUE) /\ HistoryIdle

SpecSession == InitSession /\ [][NextSession]_vars

\* the page of the sync build with its realtime channel: a task is running,
\* changes are reported, fetches and history queries settle
InitNotify == InitRunning /\ variant = "sync"

NextNotify ==
  \/ \E ev \in ChangeEvents : Notify(ev)
  \/ \E i \in 1..MaxQueries, outcome \in ReadOutcomes : FetchSettle(i, outcome)
  \/ \E s \in ReadSlots, outcome \in ReadOutcomes : SettleRead(s, outcome)

SpecNotify == InitNotify /\ [][NextNotify]_vars

\* the stopwatch of the sync build alone, every write succeeding
SpecSteadySync == InitNotify /\ [][NextSteady]_vars

\* the history table with the page of src/app/page.tsx, at one instant of the
\* clock and with timer writes that succeed: every step of the page that changes
\* refreshKey runs the table's effect
TableBudget == ops < MaxTableOps

NextHistory ==
  \/ \E id \in TaskIds : ModalFree /\ TableBudget /\ CreateTask(id, TRUE) /\ HistoryEffect
  \/ ModalFree /\ TableBudget /\ Pause(TRUE) /\ HistoryIdle
  \/ ModalFree /\ TableBudget /\ Resume(TRUE) /\ HistoryIdle
  \/ ModalFree /\ TableBudget /\ Finish(TRUE) /\ HistoryIdle
  \/ ModalFree /\ TableBudget /\ Cancel(TRUE) /\ HistoryIdle
  \/ \E s \in Slots : Deliver(s) /\ HistoryEffect
  \/ \E range \in Ranges : SetDateRange(range)
  \/ \E s \in ReadSlots, outcome \in ReadOutcomes : SettleRead(s, outcome)
  \/ \E id \in TaskIds, startedAt \in EditTimes, endedAt \in EditTimes, ok \in BOOLEAN :
        TableBudget /\ EditSave(id, startedAt, endedAt, ok)
  \/ \E id \in TaskIds, ok \in BOOLEAN : TableBudget /\ DeleteTask(id, ok)
  \/ ModalSettle

SpecHistory == InitAnchor /\ [][NextHistory]_vars

\* the edit modal against a stopwatch whose clock advances: the page, the
\* table's reloads and the edits of displayed rows, with calls that succeed
NextEdit ==
  \/ \E id \in TaskIds : ModalFree /\ TableBudget /\ CreateTask(id, TRUE) /\ HistoryEffect
  \/ Tick /\ HistoryIdle
  \/ ModalFree /\ TableBudget /\ Pause(TRUE) /\ HistoryIdle
  \/ ModalFree /\ TableBudget /\ Resume(TRUE) /\ HistoryIdle
  \/ \E s \in Slots : Deliver(s) /\ HistoryEffect
  \/ \E s \in ReadSlots : SettleRead(s, "ok")
  \/ \E id \in TaskIds, startedAt \in EditTimes, endedAt \in EditTimes :
        TableBudget /\ EditSave(id, startedAt, endedAt, TRUE)
  \/ ModalSettle

SpecEdit == InitAnchor /\ [][NextEdit]_vars

\* deleteTask called on any displayed row, deletable or not
NextDelete ==
  \/ \E id \in TaskIds : ModalFree /\ TableBudget /\ CreateTask(id, TRUE) /\ HistoryEffect
  \/ ModalFree /\ TableBudget /\ Pause(TRUE) /\ HistoryIdle
  \/ ModalFree /\ TableBudget /\ Finish(TRUE) /\ HistoryIdle
  \/ ModalFree /\ TableBudget /\ Cancel(TRUE) /\ HistoryIdle
  \/ \E s \in Slots : Deliver(s) /\ HistoryEffect
  \/ \E s \in ReadSlots : SettleRead(s, "ok")
  \/ \E id \in TaskIds, ok \in BOOLEAN : TableBudget /\ DeleteTask(id, ok)
  \/ \E id \in TaskIds : DeleteRefused(id)
  \/ ModalSettle

SpecDelete == InitAnchor /\ [][NextDelete]_vars

\* the Manage Projects modal of src/app/page.tsx over the page and the history
\* table: tasks are started and ended in the one project, its count is loaded
\* (or fails to load) and the project is deleted
NextProjects ==
  \/ \E id \in TaskIds :
        /\ ManageFree /\ TableBudget /\ activeProjectId = TaskOwner
        /\ CreateTask(id, TRUE) /\ HistoryEffect
  \/ ManageFree /\ TableBudget /\ Finish(TRUE) /\ HistoryIdle
  \/ \E s \in Slots : Deliver(s) /\ HistoryEffect
  \/ \E range \in Ranges : ManageFree /\ SetDateRange(range)
  \/ \E s \in ReadSlots, outcome \in ReadOutcomes : SettleRead(s, outcome)
  \/ \E ok \in BOOLEAN : LoadProjectTaskCounts(ok)
  \/ CountsSettle
  \/ CloseManageProjects
  \/ \E ok \in BOOLEAN : TableBudget /\ DeleteProject(ok)
  \/ DeleteProjectSettle

SpecProjects == InitAnchor /\ [][NextProjects]_vars

(* ------------------------------- claims -------------------------------- *)
ActiveTaskIds == {t \in TaskIds : store[t] # NoRow /\ store[t].status \in ActiveStatuses}

\* C1: the accumulated_ms and duration_ms persisted by the finish of a task
\* equal the sum of the wall-clock running slices of the task (from start or
\* resume to the next pause or finish), whatever the number of pause/resume
\* cycles and the time spent paused.
C1_FinishPersistsSliceSum ==
  (lastOp.op = "finish" /\ lastOp.ok /\ lastOp.first) =>
    /\ store[lastOp.id].accumulated_ms = slices[lastOp.id].sum
    /\ store[lastOp.id].duration_ms = slices[lastOp.id].sum

\* C2: no timer write and no finalize call changes a row that is already
\* finished or canceled.
C2_TerminalRowFrozen ==
  (lastOp.op \in {"pause", "resume", "finish", "cancel", "finalize"} /\ lastOp.wasTerminal)
    => ~lastOp.rowChanged

\* C3: at most one task of the user's project is running or paused.
C3_AtMostOneActiveTask == Cardinality(ActiveTaskIds) <= 1

\* C4: a finalize call on a row that is already finished or canceled leaves
\* the row as it was, whatever clientAccumulatedMs it carries.
C4_FinalizeTerminalNoop ==
  (lastOp.op = "finalize" /\ lastOp.wasTerminal) => ~lastOp.rowChanged

\* C4 witness: finalize called, after time has passed, on a row that an
\* earlier call or the user had already ended
C4_Witness ==
  /\ lastOp.op = "finalize" /\ lastOp.wasTerminal
  /\ store[lastOp.id].ended_at < now

\* C5: a persisted cancel leaves the row canceled with duration_ms 0 and
\* accumulated_ms 0, whatever time had elapsed.
C5_CancelZeroesDuration ==
  (lastOp.op = "cancel" /\ lastOp.ok) =>
    /\ store[lastOp.id].status = "canceled"
    /\ store[lastOp.id].duration_ms = 0
    /\ store[lastOp.id].accumulated_ms = 0

\* C5 witness: a cancel persisted for a task that had accumulated time
C5_Witness ==
  /\ lastOp.op = "cancel" /\ lastOp.ok
  /\ accumulatedMs >= 1
  /\ store[lastOp.id].status = "canceled"

\* the stopwatch shows the fields of the row it was handed
LocalEqualsRow(row) ==
  /\ status = row.status
  /\ accumulatedMs = row.accumulated_ms
  /\ pauseCount = Coalesce(row.pause_count, 0)
  /\ pausedMs = Coalesce(row.paused_ms, 0)

C10_EveryTransitionOptimistic ==
  /\ lastOp.op = "pause" => (status = "paused" /\ totalMs = accumulatedMs)
  /\ lastOp.op = "resume" => (status = "running" /\ totalMs = accumulatedMs)
  /\ lastOp.op = "finish" => (status = "finished" /\ totalMs = FinalMs)
  /\ lastOp.op = "cancel" => (status = "canceled" /\ totalMs = 0)

\* C10: pause and resume set the local status and the displayed total in the
\* handler, before their write is confirmed; finish and cancel leave both as
\* they were until their write has settled.
C10_PauseResumeOptimistic ==
  [][ /\ lastOp'.op = "pause" =>
           (status' = "paused" /\ totalMs' = accumulatedMs + (now - runningStartRef))
      /\ lastOp'.op = "resume" => (status' = "running" /\ totalMs' = accumulatedMs)
      /\ lastOp'.op \in {"finish", "cancel"} => (status' = status /\ totalMs' = totalMs)
    ]_vars

\* C10 witness: after a pause and a resume, a finish has been issued and
\* persisted; the stopwatch still shows running and a total below the
\* persisted one
C10_Witness ==
  /\ lastOp.op = "finish" /\ lastOp.ok
  /\ status = "running"
  /\ pauseCount >= 1
  /\ totalMs < store[lastOp.id].duration_ms

\* the reply in slot s, of a pause or resume whose write failed, is handled
FailedReplyHandled(s) ==
  /\ responses[s] # NoResponse
  /\ responses[s].kind \in {"pause", "resume"}
  /\ ~responses[s].ok
  /\ responses'[s] = NoResponse

\* C11: when the reply of a failed pause or resume write is handled, an error
\* toast is raised, the stopwatch keeps its optimistic status and accumulated
\* time, the page keeps its active-task row, and no write is issued: the store
\* and the other replies on their way stay as they were.
C11_FailedWriteKeepsOptimistic ==
  [][ \A s \in Slots : FailedReplyHandled(s) =>
        /\ lastOp'.toast
        /\ status' = status /\ accumulatedMs' = accumulatedMs
        /\ activeTask' = activeTask
        /\ store' = store
        /\ \A q \in Slots \ {s} : responses'[q] = responses[q]
    ]_vars

\* C11 witness: the reply of a failed pause has been handled with a toast; the
\* stopwatch shows paused with the slice added, the store row is still running
C11_Witness ==
  /\ lastOp.op = "deliver" /\ lastOp.toast /\ Mounted
  /\ status = "paused" /\ accumulatedMs >= 1
  /\ activeTask.status = "running"
  /\ store[activeTask.id].status = "running"
  /\ store[activeTask.id].accumulated_ms = 0
  /\ Pending = 0

\* C12: in every row of the store, paused_at is set if and only if the status
\* is paused.
C12_PausedAtIffPaused ==
  \A t \in TaskIds :
    store[t] # NoRow => ((store[t].paused_at # NULL) <=> (store[t].status = "paused"))

\* C13: in every row of the store, ended_at is set if and only if the status
\* is finished or canceled.
C13_EndedAtIffTerminal ==
  \A t \in TaskIds :
    store[t] # NoRow => ((store[t].ended_at # NULL) <=> IsTerminal(store[t]))

\* C14: every accumulated_ms, duration_ms and paused_ms in the store is
\* non-negative, also when the wall clock reads earlier than the running start
\* or the start of the pause.
C14_PersistedMsNonNegative ==
  \A t \in TaskIds :
    store[t] # NoRow =>
      /\ store[t].accumulated_ms >= 0
      /\ store[t].duration_ms >= 0
      /\ store[t].paused_ms >= 0

\* C15: no write to a row that is running or paused before and after it
\* lowers the row's accumulated_ms.
C15_AccumulatedNeverDecreases ==
  [][ \A t \in TaskIds :
        (/\ store[t] # NoRow /\ store'[t] # NoRow
         /\ ~IsTerminal(store[t]) /\ ~IsTerminal(store'[t]))
        => store'[t].accumulated_ms >= store[t].accumulated_ms
    ]_vars

\* C16: over every step that leaves the same stopwatch on display, the total
\* it shows does not decrease while its status stays running and does not
\* change while its status stays paused.
C16_DisplayedTotalMonotone ==
  [][ (Mounted /\ activeTask' # NoTask /\ activeTask'.id = activeTask.id) =>
        /\ (status = "running" /\ status' = "running") => totalMs' >= totalMs
        /\ (status = "paused" /\ status' = "paused") => totalMs' = totalMs
    ]_vars

\* the running start of a running task: the anchor's when the slot names the
\* task, else updated_at, else started_at, else now
ExpectedRunningStart(slot, task) ==
  IF slot # NoAnchor /\ slot.taskId = task.id /\ slot.runningStartMs # NULL
  THEN slot.runningStartMs
  ELSE IF task.updated_at \notin {NULL, Invalid} THEN task.updated_at
  ELSE IF task.started_at \notin {NULL, Invalid} THEN task.started_at
  ELSE now

\* C17: a stopwatch that mounts on a running task takes as running start the
\* anchor's runningStartMs when the slot names the task, else the task's
\* updated_at, else its started_at, else now; and a tick displays
\* accumulated_ms + (now - that running start).
C17_RunningStartResolution ==
  [][ /\ (lastOp'.op = "reload" /\ activeTask' # NoTask /\ status' = "running")
           => runningStartRef' = ExpectedRunningStart(anchor, activeTask')
      /\ (lastOp'.op = "tick")
           => (/\ runningStartRef' = runningStartRef
               /\ totalMs' = activeTask.accumulated_ms + (now - runningStartRef))
    ]_vars

\* C17 witness: a tick of a stopwatch mounted on a running task whose
\* updated_at does not parse: the running start is started_at (1) and the
\* display is accumulated_ms + (now - started_at)
C17_Witness ==
  /\ lastOp.op = "tick"
  /\ activeTask.updated_at = Invalid /\ activeTask.started_at = 1
  /\ runningStartRef = 1 /\ now = 2
  /\ activeTask.accumulated_ms = 1 /\ totalMs = 2

\* C19: a persisted pause leaves the row paused with accumulated_ms = the
\* stopwatch's accumulated time + (now - running start), pause_count = its
\* pause count + 1, paused_at = now, paused_ms as the stopwatch held it, and
\* duration_ms as it was in the row.
C19_PausePatch ==
  [][ (lastOp'.op = "pause" /\ lastOp'.ok) =>
        /\ store'[activeTask.id].status = "paused"
        /\ store'[activeTask.id].accumulated_ms = accumulatedMs + (now - runningStartRef)
        /\ store'[activeTask.id].pause_count = pauseCount + 1
        /\ store'[activeTask.id].paused_at = now
        /\ store'[activeTask.id].paused_ms = pausedMs
        /\ store'[activeTask.id].duration_ms = store[activeTask.id].duration_ms
    ]_vars

\* C19 witness: the first pause of a task, persisted after the task has run
\* for MaxNow: accumulated_ms = MaxNow, pause_count = 1, duration_ms not written
C19_Witness ==
  /\ lastOp.op = "pause" /\ lastOp.ok /\ ~lastOp.wasTerminal
  /\ store[lastOp.id].started_at = 0 /\ now = MaxNow
  /\ store[lastOp.id].accumulated_ms = MaxNow
  /\ store[lastOp.id].pause_count = 1
  /\ store[lastOp.id].paused_at = MaxNow
  /\ store[lastOp.id].duration_ms = 0

\* C20: a persisted resume of a row that is paused leaves it running with
\* paused_at null, paused_ms = its paused_ms + (now - its paused_at),
\* accumulated_ms as the preceding pause persisted it, and pause_count and
\* duration_ms as they were.
C20_ResumePatch ==
  [][ (lastOp'.op = "resume" /\ lastOp'.ok /\ store[activeTask.id].status = "paused") =>
        /\ store'[activeTask.id].status = "running"
        /\ store'[activeTask.id].paused_at = NULL
        /\ store'[activeTask.id].paused_ms =
              store[activeTask.id].paused_ms + (now - store[activeTask.id].paused_at)
        /\ store'[activeTask.id].accumulated_ms = store[activeTask.id].accumulated_ms
        /\ store'[activeTask.id].pause_count = store[activeTask.id].pause_count
        /\ store'[activeTask.id].duration_ms = store[activeTask.id].duration_ms
    ]_vars

\* the slot holds an anchor that names task id
AnchorNames(id) == anchor # NoAnchor /\ anchor.taskId = id

\* C18: while the stopwatch on display is running the anchor slot names its
\* task; while it is paused the slot does not name its task; and the slot
\* names no ended task that the page no longer holds (neither on display nor
\* as its stored active task).
C18_AnchorFollowsRunning ==
  /\ (Mounted /\ status = "running") => AnchorNames(activeTask.id)
  /\ (Mounted /\ status = "paused") => ~AnchorNames(activeTask.id)
  /\ \A t \in TaskIds :
        (/\ store[t] # NoRow /\ IsTerminal(store[t])
         /\ ~(Mounted /\ activeTask.id = t)
         /\ storedActiveTask # t)
        => ~AnchorNames(t)

\* C21: a persisted finish leaves the row finished with ended_at = now,
\* paused_at null and accumulated_ms = duration_ms; issued while the stopwatch
\* is running, duration_ms = its accumulated time + (now - running start) and
\* paused_ms is as it held it; issued while it is paused, duration_ms = its
\* accumulated time and paused_ms = its paused time + (now - start of the pause).
C21_FinishPatch ==
  [][ (lastOp'.op = "finish" /\ lastOp'.ok) =>
        /\ store'[activeTask.id].status = "finished"
        /\ store'[activeTask.id].ended_at = now
        /\ store'[activeTask.id].paused_at = NULL
        /\ store'[activeTask.id].accumulated_ms = store'[activeTask.id].duration_ms
        /\ status = "running" =>
              /\ store'[activeTask.id].duration_ms = accumulatedMs + (now - runningStartRef)
              /\ store'[activeTask.id].paused_ms = pausedMs
        /\ status = "paused" =>
              /\ pausedAtRef # NULL
              /\ store'[activeTask.id].duration_ms = accumulatedMs
              /\ store'[activeTask.id].paused_ms = pausedMs + (now - pausedAtRef)
    ]_vars

\* C21 witness: a finish persisted while the stopwatch is paused, one tick
\* after a pause that followed one tick of running: duration_ms = 1 and
\* paused_ms = 1
C21_Witness ==
  /\ lastOp.op = "finish" /\ lastOp.ok /\ ~lastOp.wasTerminal
  /\ status = "paused" /\ accumulatedMs = 1 /\ pausedAtRef = 1 /\ now = 2
  /\ store[lastOp.id].status = "finished"
  /\ store[lastOp.id].duration_ms = 1
  /\ store[lastOp.id].accumulated_ms = 1
  /\ store[lastOp.id].paused_ms = 1
  /\ store[lastOp.id].paused_at = NULL
  /\ store[lastOp.id].ended_at = 2

\* a step that issues no write, raises no error and leaves the stopwatch's
\* status, accumulated time, pause count, paused time and running start, and
\* the anchor slot, as they were
NoTimerEffect ==
  /\ store' = store /\ responses' = responses
  /\ ~lastOp'.toast
  /\ status' = status /\ accumulatedMs' = accumulatedMs /\ pauseCount' = pauseCount
  /\ pausedMs' = pausedMs /\ runningStartRef' = runningStartRef
  /\ anchor' = anchor

\* C22: a call of pause while the stopwatch's status is not running, and a
\* call of resume while it is not paused, issues no write, raises no error and
\* leaves status, accumulated time, pause count, paused time, running start
\* and anchor unchanged.
C22_GuardedCallsAreNoops ==
  [][ /\ (Mounted /\ status # "running" /\ lastOp'.op \in {"pause", "pause-ignored"})
           => NoTimerEffect
      /\ (Mounted /\ status # "paused" /\ lastOp'.op \in {"resume", "resume-ignored"})
           => NoTimerEffect
    ]_vars

\* C22 witness: pause called again one tick after a pause whose write is still
\* on its way: one pause counted, one write issued
C22_Witness ==
  /\ lastOp.op = "pause-ignored" /\ Mounted
  /\ status = "paused" /\ pauseCount = 1 /\ pausedAtRef < now
  /\ store[activeTask.id].pause_count = 1
  /\ Pending = 1

\* C23: a tick fires only while the stopwatch is running; it sets the displayed
\* total to accumulated time + (now - running start), issues no write and
\* leaves the status, accumulated time, pause count, paused time, running
\* start, anchor slot, page state and store as they were.
C23_TickOnlyRedraws ==
  [][ lastOp'.op = "tick" =>
        /\ status = "running"
        /\ totalMs' = accumulatedMs + (now - runningStartRef)
        /\ NoTimerEffect
        /\ pausedAtRef' = pausedAtRef
        /\ activeTask' = activeTask /\ refreshKey' = refreshKey
    ]_vars

\* C23 witness: a tick one instant after a resume that followed a pause at
\* accumulated time 1: the display shows 2, the accumulated time and the row
\* still hold 1
C23_Witness ==
  /\ lastOp.op = "tick" /\ status = "running"
  /\ pauseCount = 1 /\ accumulatedMs = 1 /\ runningStartRef = 1 /\ now = 2
  /\ totalMs = 2
  /\ store[activeTask.id].accumulated_ms = 1
  /\ Pending = 0

NoReadsOutstanding == \A s \in ReadSlots : reads[s] = NoRead

C7_SettledShowsSelected ==
  (NoReadsOutstanding /\ ~readFailed) => shownKey = CurrentKey

\* C8: with no write on its way, a load served from the cache displays what
\* the store holds for the selected range: no result cached before a task
\* mutation is displayed after it.
C8_NoStaleCacheHit ==
  (lastLoad = "hit" /\ Pending = 0 /\ ModalFree) =>
    (rows = QueryRows(store, dateRange) /\ total = QueryCount(store, dateRange))

\* the step runs load() for the key selected after it
LoadRuns == lastLoad' # "none"

\* the query of slot s settles without an error
FetchSucceeds(s) ==
  /\ reads[s] # NoRead /\ reads'[s] = NoRead
  /\ lastOp'.op = "settle" /\ lastOp'.ok

\* C24: a load of a key that has a cache entry issues no query and displays
\* exactly the entry's rows and total; and every query that settles without an
\* error leaves its result in the cache under the key it was issued for.
C24_CacheHitAndStore ==
  [][ /\ (LoadRuns /\ Cached(getCacheKey(refreshKey', dateRange')) # {}) =>
           /\ reads' = reads
           /\ \E e \in Cached(getCacheKey(refreshKey', dateRange')) :
                 rows' = e.rows /\ total' = e.total
      /\ \A s \in ReadSlots : FetchSucceeds(s) =>
           \E e \in cacheRef' :
              e.key = reads[s].key /\ e.rows = reads[s].rows /\ e.total = reads[s].total
    ]_vars

\* C25: a step that changes the signed-in user leaves the projects cache and
\* the profile cache empty and no in-flight marker of another user; and what a
\* cache hit hands to the page is always an entry of the user signed in.
C25_ActorChangeDropsCaches ==
  [][ /\ user' # user =>
           /\ projectsCacheRef' = NoCache /\ profileCacheRef' = NoCache
           /\ projectsInFlightRef' \in {NoUser, user'}
           /\ profileInFlightRef' \in {NoUser, user'}
      /\ lastServed'.projects \in {NoUser, user'}
      /\ lastServed'.profile \in {NoUser, user'}
    ]_vars

\* C25 witness: user 2 has just signed in on a page that shows user 1's
\* projects: both caches are empty, nothing was served from them, and the
\* queries for user 2's projects and profile are on their way
C25_Witness ==
  /\ lastOp.op = "auth" /\ user = 2
  /\ projects = 1
  /\ projectsCacheRef = NoCache /\ profileCacheRef = NoCache
  /\ projectsInFlightRef = NoUser /\ profileInFlightRef = 2
  /\ lastServed = NothingServed
  /\ \E i \in 1..Len(queries) : queries[i] = [kind |-> "projects", userId |-> 2]

\* C26: no two active-task lookups on their way carry the same key
\* (user, project, candidate task).
C26_OneLookupPerKey ==
  \A i, j \in 1..Len(queries) :
    (i # j /\ queries[i].kind = "lookup" /\ queries[j].kind = "lookup")
      => queries[i].key # queries[j].key

\* the change is one of a task of the signed-in user in the watched project
OwnChange(ev) == ev.user_id = user /\ ev.project_id = activeProjectId

FetchIssued == Len(queries') = Len(queries) + 1 /\ queries'[Len(queries')].kind = "fetch"

\* C27: every insert, update or delete reported for a task of the signed-in
\* user in the watched project issues an active-task fetch and increments
\* refreshKey, so that the history table loads under a key that has no cache
\* entry; a change of another user's or another project's task does neither.
C27_ChangeTriggersRefetch ==
  [][ lastOp'.op = "notify" =>
        IF OwnChange(lastOp'.event)
        THEN /\ FetchIssued
             /\ refreshKey' = refreshKey + 1
             /\ Cached(getCacheKey(refreshKey', dateRange)) = {}
        ELSE queries' = queries /\ refreshKey' = refreshKey
    ]_vars

\* C28: getPausedMs gives max(0, paused_ms) for a row that is not paused; for a
\* paused row it gives paused_ms + (now - pausedAt), never below zero, where
\* pausedAt is the first of paused_at, updated_at, started_at that is present
\* and parses
FirstParsed(task) ==
  Coalesce(parseIsoMs(task.paused_at),
    Coalesce(parseIsoMs(task.updated_at), parseIsoMs(task.started_at)))

PausedFigure(task) ==
  IF task.status # "paused" THEN Max(0, Coalesce(task.paused_ms, 0))
  ELSE Max(0, Max(0, Coalesce(task.paused_ms, 0)) + (now - FirstParsed(task)))

C28_PausedFigure ==
  [][lastOp'.op = "view" /\ (viewTask.status = "paused" => FirstParsed(viewTask) # NULL)
       => viewFigures'.pausedMs = PausedFigure(viewTask)]_vars

\* C29: getDisplayDurationMs gives duration_ms for a finished or canceled row
\* and accumulated_ms for a running or paused row, whatever the two fields hold
C29_DisplayDuration ==
  [][lastOp'.op = "view"
       => /\ viewTask.status \in {"finished", "canceled"}
             => viewFigures'.durationMs = viewTask.duration_ms
          /\ viewTask.status \in {"running", "paused"}
             => viewFigures'.durationMs = viewTask.accumulated_ms]_vars

\* a finished row whose two fields differ has been rendered
C29_Witness ==
  /\ lastOp.op = "view"
  /\ viewTask.status = "finished"
  /\ viewTask.duration_ms > viewTask.accumulated_ms
  /\ viewFigures.durationMs = viewTask.duration_ms

\* C30: canDeleteTask holds exactly for finished and canceled rows; deleteTask
\* issues the delete only for a row for which it holds, and for a running or
\* paused row it shows an error, issues no delete and leaves rows, total and
\* cache as they are
C30_DeleteOnlyTerminal ==
  [][/\ \A row \in rows : canDeleteTask(row) <=> row.status \in TerminalStatuses
     /\ lastOp'.op = "delete"
          => \E row \in rows : row.id = lastOp'.id /\ row.status \in TerminalStatuses
     /\ (\E t \in TaskIds : store[t] # NoRow /\ store'[t] = NoRow)
          => lastOp'.op = "delete"
     /\ lastOp'.op = "delete-refused"
          => /\ lastOp'.toast
             /\ \E row \in rows : row.id = lastOp'.id /\ row.status \in {"running", "paused"}
             /\ UNCHANGED <<store, modalReply, rows, total, cacheRef>>]_vars

\* deleteTask has just refused a displayed running row, with a cache entry present
C30_Witness ==
  /\ lastOp.op = "delete-refused"
  /\ \E row \in rows : row.id = lastOp.id /\ row.status = "running"
  /\ cacheRef # {}

\* ... and a delete of a finished row has been issued
C30_WitnessIssued ==
  /\ lastOp.op = "delete" /\ lastOp.ok
  /\ store[lastOp.id] = NoRow
\* the page's projects reads on their way for user u
ProjectsReads(qs, u) ==
  Cardinality({i \in 1..Len(qs) : qs[i].kind = "projects" /\ qs[i].userId = u})

\* C32: projects reads are deduplicated per user id: a run of the projects
\* load for a user whose projects read is on its way issues no second read,
\* and a run after the read has succeeded (its result is in the cache) is
\* served from the cache and issues none
C32_ProjectsReadOncePerUser ==
  [][lastOp'.op = "auth" /\ user' # NoUser
       => /\ ProjectsReads(queries, user') > 0
             => ProjectsReads(queries', user') = ProjectsReads(queries, user')
          /\ CacheIsFor(projectsCacheRef, user')
             => /\ ProjectsReads(queries', user') = ProjectsReads(queries, user')
                /\ lastServed'.projects = user']_vars
\* the step just taken settled the i-th query on its way, a projects or profile
\* read started for a user other than the one signed in
StaleSettled(i) ==
  /\ lastOp'.op = "query"
  /\ i \in 1..Len(queries)
  /\ queries[i].kind \in {"projects", "profile"}
  /\ queries[i].userId # user
  /\ \/ queries' = RemoveAt(queries, i)
     \/ /\ Len(queries') = Len(queries)
        /\ SubSeq(queries', 1, Len(queries) - 1) = RemoveAt(queries, i)

\* C36: a projects or profile read started for a previous user that settles
\* after the actor changed is applied neither to the page state nor to the
\* caches, and leaves the in-flight markers of the new actor alone
C36_StaleReplyIgnored ==
  [][\A i \in 1..MaxQueries : StaleSettled(i)
       => UNCHANGED <<projects, activeProjectId, profileUsername, projectsCacheRef,
                      profileCacheRef, projectsInFlightRef, profileInFlightRef>>]_vars
\* C33: whenever the page has an active task, it is a task of the signed-in
\* user in the active project (the tasks of this model are user TaskOwner's, in
\* that user's project): no reply of a superseded lookup sets it
C33_ActiveTaskOfSignedInUser ==
  activeTask # NoTask => user = TaskOwner /\ activeProjectId = TaskOwner
\* the step hands the stopwatch the failed reply of a finish or cancel write
FailedEndDelivered(s) ==
  /\ responses[s] # NoResponse /\ responses'[s] = NoResponse
  /\ responses[s].kind \in {"finish", "cancel"}
  /\ ~responses[s].ok

\* C34: finish and cancel drop the active task and clear the anchor only when
\* their write succeeded: after a failed write the task is still the page's
\* active task, and its stored key and anchor are as before
C34_FailedEndKeepsTask ==
  [][\A s \in Slots : FailedEndDelivered(s) /\ activeTask # NoTask
       => /\ activeTask' = activeTask
          /\ storedActiveTask' = storedActiveTask
          /\ anchor' = anchor]_vars
\* C35: when the replies of all transitions have been handed over, whatever
\* their order, and no write has failed, the stopwatch's status and
\* accumulatedMs are those of the store row of its task
C35_SettledTimerMatchesStore ==
  (Mounted /\ \A s \in Slots : responses[s] = NoResponse)
    => /\ store[activeTask.id] # NoRow
       /\ status = store[activeTask.id].status
       /\ accumulatedMs = store[activeTask.id].accumulated_ms
\* the tasks whose row a deleteTask has removed from the store
Deleted == {t \in TaskIds : slices[t].made /\ store[t] = NoRow}

\* C37: once deleteTask has succeeded and its call has settled, the deleted
\* task is not among the displayed rows and the displayed total does not count
\* it, whatever loads (cache hits included) have run since
C37_DeletedStaysGone ==
  ModalFree =>
    /\ \A row \in rows : row.id \notin Deleted
    /\ total <= Cardinality({t \in TaskIds : store[t] # NoRow})
\* the keys of the history queries on their way
OutstandingKeys == {reads[s].key : s \in {u \in ReadSlots : reads[u] # NoRead}}

\* C39: isLoading holds only while the query named by activeRequestRef is on
\* its way: when it holds, activeRequestRef names a key of the in-flight set;
\* the in-flight set is the set of keys with a query on its way; and with no
\* query on its way isLoading is false
C39_LoadingMeansOutstanding ==
  /\ isLoading => activeRequestRef # NoKey /\ activeRequestRef \in inFlightRef
  /\ inFlightRef = OutstandingKeys
  /\ OutstandingKeys = {} => ~isLoading
\* a load has yielded to the query of its key while the table waits for the
\* query of another key
C39_Witness ==
  /\ isLoading /\ lastLoad = "yield"
  /\ activeRequestRef # CurrentKey
  /\ Cardinality(inFlightRef) = 2

\* C38: deleteProject issues the store delete only for a project whose task
\* count was loaded successfully and is zero: the count query of the open modal
\* has settled without an error, it counted no task, and the project has no
\* task in the store when the delete is issued
CountLoadedZero ==
  /\ countQuery.state = "settled"
  /\ ~countQuery.error
  /\ countQuery.count = 0
C38_DeleteOnlyCountedEmpty ==
  [][lastOp'.op = "delete-project" =>
       CountLoadedZero /\ ProjectTaskCount(store) = 0]_vars
\* ... which holds of the deletes issued after a count query that succeeded
C38_AfterLoadedCount ==
  [][lastOp'.op = "delete-project" /\ ~countQuery.error =>
       CountLoadedZero /\ ProjectTaskCount(store) = 0]_vars

\* the Download Excel button: disabled={rows.length === 0}
ExportDisabled == rows = {}

EmptyTable ==
  /\ rows = {} /\ total = 0
  /\ ~isLoading
  /\ activeRequestRef = NoKey
  /\ ExportDisabled

\* C31: when no project is selected a history load issues no store read and
\* leaves the table in the empty state: no row, total 0, not loading, no
\* active request, the export disabled; the table of a signed-in user without a
\* project is in that state after every step
C31_NoProjectEmptyTable ==
  [][user' # NoUser /\ activeProjectId' = NoUser =>
       /\ EmptyTable'
       /\ lastLoad' \in {"none", "empty"}
       /\ \A s \in ReadSlots : reads'[s] # NoRead => reads'[s] = reads[s]]_vars
\* a range is picked in a table that has no project, and load() has run
C31_Witness ==
  /\ user # NoUser /\ activeProjectId = NoUser
  /\ lastOp.op = "range" /\ dateRange # NoRange
  /\ lastLoad = "empty"
====
